---- MODULE Spec2Model ----
(***************************************************************************)
(* Sequential Agent Queue: the dependency sorter, the workflow scheduler,  *)
(* the stage executor with its retry loop, and the error classifier and    *)
(* recovery advisor, modelled from queue.js (src/unnamed/part_006),        *)
(* error-handler.js (src/unnamed/part_000) and resource-manager.js         *)
(* (src/unnamed/part_004), and the workflow state store, modelled from     *)
(* src/persistence.js.                                                     *)
(*                                                                         *)
(* JavaScript values are represented as follows.  An optional field is a   *)
(* sequence: <<>> is undefined, <<v>> is the value v.  An array is a       *)
(* sequence.  An object used as a map (adj, indegree, stageOutputs) is a   *)
(* function whose DOMAIN is the set of keys that have been assigned.  An   *)
(* error message is the set of the classifier's regular expressions that   *)
(* match its text.                                                         *)
(***************************************************************************)
EXTENDS Integers, Sequences, FiniteSets, TLC

VARIABLES
    workflow,        \* the workflow definition handed to executeWorkflow / the sorter
    errorHandler,    \* module-level errorHandler is non-null (part_006:29-40)
    resourceManager, \* module-level resourceManager is non-null
    checkpoint,      \* module-level checkpoint is non-null (part_006:20-26)
    pc,              \* position of executeWorkflow
    thrown,          \* the error executeWorkflow threw, "" when none
    executionOrder,  \* const executionOrder (part_006:885)
    i,               \* loop index of the stage loop, 1-based (part_006:980)
    stageOutputs,    \* const stageOutputs = {} (part_006:977)
    failedStage,     \* let failedStage (part_006:976), <<>> is null
    success,         \* const success (part_006:1078), <<>> before it is computed
    stagePc,         \* position of executeStage
    cur,             \* the stage executeStage was called for
    attempt,         \* loop variable attempt of executeStage (part_006:652)
    lastError,       \* let lastError (part_006:630), <<>> is null
    stageThrown,     \* the error executeStage threw, "" when none
    evidenceValid,   \* evidenceValidation.valid of the current attempt, <<>> before validation
    spawnCount,      \* number of agentSpawner invocations per stage name
    active,          \* stages with an attempt between its spawn and its end
    validatedAt,     \* per stage name, the attempts whose evidence validated
    persistence,     \* module-level persistence is non-null (part_006:31-40)
    context,         \* the context argument of executeWorkflow
    workflowState,   \* let workflowState and let isResume (part_006:895-896)
    disk,            \* the state file of the workflow id, <<>> when there is none
    lastOp,          \* the last call of the state store and the file it found
    iterationStatus, \* let iterationStatus (part_006:1081), <<>> is null
    gapFile,         \* gaps array of the last stage's evidence file at the end of the pass
    restarts,        \* number of recursive calls of executeWorkflow made so far
    timeoutsUsed,    \* the timeout, in seconds, handed to the spawner at each attempt of cur
    delaysUsed,      \* the delays, in seconds, awaited between the attempts of cur
    wait,            \* a direct call of waitForCompletion: position, clock and outcome
    validated,       \* outcome of a direct call of validateWorkflow
    gapCall,         \* a direct call of checkCriticalGaps: arguments, file and outcome
    evidenceCall,    \* a direct call of validateCompletionEvidence: arguments, files and outcome
    saveCall,        \* a state object in memory, the clock, its state file and what was loaded
    gitResult,       \* const gitResult of the current attempt (part_006:740) with the
                     \* repository it was computed on, <<>> before it
    sortResult,      \* outcome of a direct call of topologicalSort
    errIn,           \* input of a direct call of the recovery advisor
    decision         \* outcome of a direct call of the recovery advisor

vars == <<workflow, errorHandler, resourceManager, checkpoint, pc, thrown,
          executionOrder, i, stageOutputs, failedStage, success, stagePc, cur,
          attempt, lastError, stageThrown, evidenceValid, spawnCount, active,
          validatedAt, persistence, context, workflowState, disk, lastOp,
          iterationStatus, gapFile, restarts, timeoutsUsed, delaysUsed, wait,
          validated, gapCall, evidenceCall, saveCall, gitResult, sortResult, errIn, decision>>

(***************************************************************************)
(* Bounds of the model                                                     *)
(***************************************************************************)
StageNames == <<"A", "B", "C">>     \* the stage names workflows are built from
Unknown == "Z"                       \* a dependency name that no stage carries
MaxRetries == 2                      \* largest retry count a definition asks for
MaxAttempt == 4                      \* largest attempt number handed to the advisor
MaxStartIteration == 2               \* largest context.iteration a caller passes
MaxIteration == 4                    \* executeWorkflow is not called again at this iteration
MaxWaitTimeout == 12                 \* largest timeout, in seconds, of a direct call of waitForCompletion
MaxPollLatency == 1                  \* largest time, in seconds, one pass of the polling loop takes

Undefined == <<>>
Some(v) == <<v>>
IsDefined(o) == o # <<>>
ValueOf(o) == o[1]

Range(s) == {s[k] : k \in 1..Len(s)}
NameSet == Range(StageNames)

(***************************************************************************)
(* Workflow definitions                                                    *)
(***************************************************************************)
\* dependency arrays: order and repetition are kept, as in the JSON array
DepLists ==
    LET D == NameSet \cup {Unknown}
    IN  {<<>>} \cup {<<a>> : a \in D} \cup {<<a, b>> : a, b \in D}

\* stage k carries one of the first k names, so every pattern of repeated
\* names occurs once up to renaming
NameLists(n) == {nl \in [1..n -> NameSet] :
                    \A k \in 1..n : nl[k] \in {StageNames[j] : j \in 1..k}}

Stage(n, deps, r) == [name |-> n, dependencies |-> deps, retries |-> r]

StageLists(names(_), deps, retries, maxLen) ==
    UNION {{[k \in 1..n |-> Stage(nl[k], dl[k], rl[k])] :
              nl \in names(n), dl \in [1..n -> deps], rl \in [1..n -> retries]} :
           n \in 0..maxLen}

Workflow(stages, soe, rof) ==
    [stages |-> stages, stopOnError |-> soe, retryOnFailure |-> rof,
     iterationEnabled |-> Undefined, maxIterations |-> Undefined]

IterationWorkflow(wf, enabled, maxIter) ==
    [wf EXCEPT !.iterationEnabled = enabled, !.maxIterations = maxIter]

\* the fields of the context argument that executeWorkflow reads
Context(iteration, workflowId, requireResume) ==
    [iteration |-> iteration, previousIterations |-> <<>>,
     workflowId |-> workflowId, requireResume |-> requireResume]

\* executeWorkflow(workflow) with the default argument context = {}
NoContext == Context(Undefined, Undefined, Undefined)

(***************************************************************************)
(* Dependency graph sorter                                                 *)
(***************************************************************************)
Return(v) == [kind |-> "return", value |-> v]
Throw(type, named) == [kind |-> "throw", error |-> [name |-> type, stages |-> named]]

stageNamesOf(stages) == [k \in 1..Len(stages) |-> stages[k].name]

\* for (const dep of stage.dependencies) { adj[dep].push(stage.name); indegree[stage.name]++ }
\* adj[dep] is undefined for a name that no stage carries and .push throws
RECURSIVE BuildEdges(_, _, _, _, _)
BuildEdges(stages, k, j, adj, indegree) ==
    IF k > Len(stages) THEN [ok |-> TRUE, adj |-> adj, indegree |-> indegree]
    ELSE IF j > Len(stages[k].dependencies) THEN BuildEdges(stages, k + 1, 1, adj, indegree)
    ELSE LET dep == stages[k].dependencies[j]
         IN  IF dep \notin DOMAIN adj
             THEN [ok |-> FALSE, adj |-> adj, indegree |-> indegree]
             ELSE BuildEdges(stages, k, j + 1,
                             [adj EXCEPT ![dep] = Append(@, stages[k].name)],
                             [indegree EXCEPT ![stages[k].name] = @ + 1])

\* variant: a neighbour is queued as soon as one of its dependencies is sorted
RECURSIVE RelaxNeighbors_pushAlways(_, _, _)
RelaxNeighbors_pushAlways(nbrs, indegree, queue) ==
    IF nbrs = <<>> THEN [indegree |-> indegree, queue |-> queue]
    ELSE LET n == Head(nbrs)
             d == indegree[n] - 1
         IN  RelaxNeighbors_pushAlways(Tail(nbrs), [indegree EXCEPT ![n] = d], Append(queue, n))

\* for (const neighbor of adj[current]) { indegree[neighbor]--; if (=== 0) queue.push(neighbor) }
RECURSIVE RelaxNeighbors(_, _, _)
RelaxNeighbors(nbrs, indegree, queue) ==
    IF nbrs = <<>> THEN [indegree |-> indegree, queue |-> queue]
    ELSE LET n == Head(nbrs)
             d == indegree[n] - 1
         IN  RelaxNeighbors(Tail(nbrs), [indegree EXCEPT ![n] = d],
                            IF d = 0 THEN Append(queue, n) ELSE queue)

\* while (queue.length > 0) { ... }
RECURSIVE KahnLoop(_, _, _, _, _)
KahnLoop(queue, result, visited, adj, indegree) ==
    IF queue = <<>> THEN Return(result)
    ELSE LET current == Head(queue)
         IN  IF current \in visited
             THEN Throw("Error", <<current>>)
             ELSE LET r == RelaxNeighbors(adj[current], indegree, Tail(queue))
                  IN  KahnLoop(r.queue, Append(result, current),
                               visited \cup {current}, adj, r.indegree)

\* variant: the error message lists the stages that were sorted
Remaining_listsSorted(stageNames, result) ==
    SelectSeq(stageNames, LAMBDA n : n \in Range(result))

\* the stages the error message lists: stageNames.filter(name => !result.includes(name))
Remaining(stageNames, result) ==
    SelectSeq(stageNames, LAMBDA n : n \notin Range(result))

\* variant: without the length check, the partial order is returned
topologicalSort_partial(stages) ==
    LET stageNames == stageNamesOf(stages)
        e == BuildEdges(stages, 1, 1,
                        [n \in Range(stageNames) |-> <<>>],
                        [n \in Range(stageNames) |-> 0])
    IN  IF ~e.ok THEN Throw("TypeError", <<>>)
        ELSE LET queue == SelectSeq(stageNames, LAMBDA n : e.indegree[n] = 0)
             IN  KahnLoop(queue, <<>>, {}, e.adj, e.indegree)

topologicalSort(stages) ==
    LET stageNames == stageNamesOf(stages)
        e == BuildEdges(stages, 1, 1,
                        [n \in Range(stageNames) |-> <<>>],
                        [n \in Range(stageNames) |-> 0])
    IN  IF ~e.ok THEN Throw("TypeError", <<>>)
        ELSE LET queue == SelectSeq(stageNames, LAMBDA n : e.indegree[n] = 0)
                 k == KahnLoop(queue, <<>>, {}, e.adj, e.indegree)
             IN  IF k.kind = "throw" THEN k
                 ELSE IF Len(k.value) # Len(stageNames)
                      THEN Throw("Error", Remaining(stageNames, k.value))
                      ELSE Return(k.value)

(***************************************************************************)
(* Workflow validation                                                     *)
(***************************************************************************)
RECURSIVE FlatMap(_, _, _)
FlatMap(F(_), n, k) == IF k > n THEN <<>> ELSE F(k) \o FlatMap(F, n, k + 1)

\* every stage of the model has a string name, a string task and an array of
\* dependencies, and the optional fields have their types, so the checks left
\* are the empty stage list, duplicated names and unknown dependencies
validateWorkflow(wf) ==
    LET stages == wf.stages
        names == stageNamesOf(stages)
        emptyErr == IF Len(stages) = 0 THEN <<[kind |-> "no-stages"]>> ELSE <<>>
        dupErr(k) == IF \E idx \in 1..Len(stages) : idx # k /\ stages[idx].name = stages[k].name
                     THEN <<[kind |-> "duplicate", stage |-> stages[k].name]>>
                     ELSE <<>>
        depErr(k) == LET deps == stages[k].dependencies
                         one(j) == IF deps[j] \notin Range(names)
                                   THEN <<[kind |-> "unknown-dependency",
                                           stage |-> stages[k].name, dep |-> deps[j]]>>
                                   ELSE <<>>
                     IN  FlatMap(one, Len(deps), 1)
        errors == emptyErr \o FlatMap(dupErr, Len(stages), 1) \o FlatMap(depErr, Len(stages), 1)
    IN  [valid |-> errors = <<>>, errors |-> errors]


(***************************************************************************)
(* Error classifier and recovery advisor (error-handler.js)                *)
(***************************************************************************)
ERROR_TYPES == {"timeout", "resource_exhausted", "invalid_input", "network_error",
                "agent_spawn_failed", "validation_failed", "abandoned_stage", "unknown"}

\* a message is the set of the classifier's patterns that match its text;
\* each pattern carries the name of the type it selects
Patterns == ERROR_TYPES \ {"unknown"}
Messages == SUBSET Patterns

RETRYABILITY ==
    [t \in ERROR_TYPES |-> t \in {"timeout", "resource_exhausted", "network_error",
                                  "agent_spawn_failed"}]

Classification(t) == [type |-> t, retryable |-> RETRYABILITY[t]]

\* the tests are made in this order and the first match returns
classifyError(message) ==
    IF "timeout" \in message THEN Classification("timeout")
    ELSE IF "resource_exhausted" \in message THEN Classification("resource_exhausted")
    ELSE IF "invalid_input" \in message THEN Classification("invalid_input")
    ELSE IF "network_error" \in message THEN Classification("network_error")
    ELSE IF "agent_spawn_failed" \in message THEN Classification("agent_spawn_failed")
    ELSE IF "validation_failed" \in message THEN Classification("validation_failed")
    ELSE IF "abandoned_stage" \in message THEN Classification("abandoned_stage")
    ELSE Classification("unknown")

\* variant: the exhaustion test is off by one
decideRecoveryAction_offByOne(classification, errorContext) ==
    IF ~classification.retryable
    THEN [action |-> "halt", reason |-> "not retryable"]
    ELSE IF errorContext.attempt > errorContext.maxRetries + 1
         THEN [action |-> "halt", reason |-> "Maximum retry attempts exhausted"]
         ELSE [action |-> "retry", reason |-> "retryable"]

decideRecoveryAction(classification, errorContext) ==
    IF ~classification.retryable
    THEN [action |-> "halt", reason |-> "not retryable"]
    ELSE IF errorContext.attempt >= errorContext.maxRetries + 1
         THEN [action |-> "halt", reason |-> "Maximum retry attempts exhausted"]
         ELSE [action |-> "retry", reason |-> "retryable"]

Min(a, b) == IF a <= b THEN a ELSE b

\* Math.min(1000 * Math.pow(2, context.attempt - 1), 30000), in milliseconds
ExponentialBackoff(attemptNumber) == Min(1000 * 2 ^ (attemptNumber - 1), 30000)

\* context.currentTimeout * 1.5; the timeouts of the model are even numbers
ExtendTimeout(currentTimeout) == (currentTimeout * 3) \div 2

\* RECOVERY_STRATEGIES[type].action(...), as attemptRecovery hands it to
\* handleWorkflowError (recoveryResult.result); null when the type has no
\* strategy.  The network strategy awaits its delay before it returns.
attemptRecovery(classification, errorContext) ==
    IF classification.type = "timeout"
    THEN Some([extendTimeout |-> ExtendTimeout(errorContext.currentTimeout)])
    ELSE IF classification.type = "resource_exhausted" THEN Some([cleanup |-> TRUE])
    ELSE IF classification.type = "network_error"
    THEN Some([backoff |-> ExponentialBackoff(errorContext.attempt)])
    ELSE IF classification.type = "agent_spawn_failed" THEN Some([useFallback |-> TRUE])
    ELSE Undefined

handleWorkflowError(message, errorContext) ==
    LET classification == classifyError(message)
        d == decideRecoveryAction(classification, errorContext)
        recovers == d.action = "retry" /\ classification.retryable
    IN  [errorType |-> classification.type,
         retryable |-> classification.retryable,
         shouldRetry |-> d.action = "retry",
         recoveryAttempted |-> recovers,
         recoveryResult |-> IF recovers THEN attemptRecovery(classification, errorContext)
                            ELSE Undefined,
         haltReason |-> IF d.action = "halt" THEN Some(d.reason) ELSE Undefined]

(***************************************************************************)
(* Pre-workflow resource validation (resource-manager.js)                  *)
(***************************************************************************)
\* the module binds fs to require('fs').promises, which has no accessSync
FsHasAccessSync == FALSE

\* errors of validateWorkflowResources: the call of fs.accessSync throws inside
\* the try block when it is not a function or the directory is not writable
validateWorkflowResources(writable) ==
    IF FsHasAccessSync /\ writable THEN <<>> ELSE <<"Working directory is not writable">>

\* errors of preWorkflowCleanup: the resource errors, then the disk write test
preWorkflowCleanup(writable) ==
    validateWorkflowResources(writable)
        \o (IF writable THEN <<>> ELSE <<"Disk space check failed">>)

\* `Pre-workflow cleanup failed: ${cleanupResult.errors.join(', ')}`
CleanupFailedMessage(errors) ==
    IF errors = <<"Working directory is not writable">>
    THEN "Pre-workflow cleanup failed: Working directory is not writable"
    ELSE IF errors = <<"Disk space check failed">>
    THEN "Pre-workflow cleanup failed: Disk space check failed"
    ELSE "Pre-workflow cleanup failed: Working directory is not writable, Disk space check failed"

(***************************************************************************)
(* Workflow state store (persistence.js).  One workflow id is modelled;    *)
(* its state file is <<>> when it does not exist and <<state>> otherwise.  *)
(* The timestamps, the name and the carried context are left out, and      *)
(* reading and writing the file do not fail.                               *)
(***************************************************************************)
\* new WorkflowState({status: 'running', iteration, ...}): the constructor's defaults
WorkflowState(iteration) ==
    [status |-> "running", iteration |-> iteration, completedStages |-> <<>>,
     failedStage |-> Undefined, pausedStage |-> Undefined, stageOutputs |-> <<>>,
     errorMessage |-> Undefined]

\* saveWorkflowState writes state.toJSON() to the file
saveWorkflowState(state) == Some(state)

\* loadWorkflowState: null when the file does not exist
loadWorkflowState(file) == file

updateStageCompletion(file, stageName, stageResult) ==
    LET loaded == loadWorkflowState(file)
    IN  IF ~IsDefined(loaded) THEN file
        ELSE LET state == ValueOf(loaded)
             IN  saveWorkflowState(
                   [state EXCEPT
                      !.completedStages = IF stageName \in Range(@) THEN @
                                          ELSE Append(@, stageName),
                      !.failedStage = IF @ = Some(stageName) THEN Undefined ELSE @,
                      !.pausedStage = IF @ = Some(stageName) THEN Undefined ELSE @,
                      !.stageOutputs = (stageName :> stageResult) @@ @,
                      !.errorMessage = Undefined])

updateStageFailure(file, stageName, message) ==
    LET loaded == loadWorkflowState(file)
    IN  IF ~IsDefined(loaded) THEN file
        ELSE saveWorkflowState([ValueOf(loaded) EXCEPT !.failedStage = Some(stageName),
                                                       !.errorMessage = Some(message),
                                                       !.status = "failed"])

\* variant: the failure recorded earlier is kept
markWorkflowCompleted_keepsFailure(file) ==
    LET loaded == loadWorkflowState(file)
    IN  IF ~IsDefined(loaded) THEN file
        ELSE saveWorkflowState([ValueOf(loaded) EXCEPT !.status = "completed",
                                                       !.pausedStage = Undefined])

markWorkflowCompleted(file) ==
    LET loaded == loadWorkflowState(file)
    IN  IF ~IsDefined(loaded) THEN file
        ELSE saveWorkflowState([ValueOf(loaded) EXCEPT !.status = "completed",
                                                       !.failedStage = Undefined,
                                                       !.pausedStage = Undefined,
                                                       !.errorMessage = Undefined])

\* persistence.cancelWorkflow: the file afterwards and the returned boolean
cancelWorkflow(file) ==
    LET loaded == loadWorkflowState(file)
    IN  IF ~IsDefined(loaded) THEN [file |-> file, returned |-> FALSE]
        ELSE IF ValueOf(loaded).status = "completed" THEN [file |-> file, returned |-> FALSE]
        ELSE IF ValueOf(loaded).status = "cancelled" THEN [file |-> file, returned |-> TRUE]
        ELSE [file |-> saveWorkflowState([ValueOf(loaded) EXCEPT !.status = "cancelled"]),
              returned |-> TRUE]

\* resumeWorkflow: throws for a missing, completed or cancelled state, and
\* otherwise saves and returns the state set back to running
resumeWorkflow(file) ==
    LET loaded == loadWorkflowState(file)
    IN  IF ~IsDefined(loaded)
        THEN [kind |-> "throw", message |-> "Workflow state not found", file |-> file]
        ELSE IF ValueOf(loaded).status = "completed"
        THEN [kind |-> "throw", message |-> "Workflow is already completed", file |-> file]
        ELSE IF ValueOf(loaded).status = "cancelled"
        THEN [kind |-> "throw", message |-> "Workflow was cancelled", file |-> file]
        ELSE LET state == [ValueOf(loaded) EXCEPT !.status = "running",
                                                  !.pausedStage = Undefined,
                                                  !.failedStage = Undefined,
                                                  !.errorMessage = Undefined]
             IN  [kind |-> "return", message |-> "", file |-> saveWorkflowState(state)]

(***************************************************************************)
(* Iteration controller (queue.js)                                         *)
(***************************************************************************)
\* workflow.iterationEnabled !== false
iterationEnabledOf(wf) == wf.iterationEnabled # Some(FALSE)

DefaultMaxIterations == 3

\* workflow.maxIterations || 3
maxIterationsOf(wf) ==
    IF IsDefined(wf.maxIterations) /\ ValueOf(wf.maxIterations) # 0
    THEN ValueOf(wf.maxIterations) ELSE DefaultMaxIterations

\* context.iteration || 0
currentIterationOf(ctx) == IF IsDefined(ctx.iteration) THEN ValueOf(ctx.iteration) ELSE 0

\* the object executeStage returns for a completed attempt; its keys are status,
\* output, file, startTime, endTime, duration, attempts, sessionId, evidence,
\* gitCommit and sessionTranscript, of which the model keeps three.  The
\* evidence of the model always names a file.
StageResult(attempts) ==
    [status |-> "complete", attempts |-> attempts, evidence |-> [filePath |-> TRUE]]

\* the record the scheduler stores for a stage a resumed run finds completed
\* without a saved output
ResumedResult == [status |-> "complete", attempts |-> 0]

\* gap.status.toLowerCase() on the status texts of the model
toLowerCase(text) ==
    CASE text = "Deferred" -> "deferred"
      [] text = "OPEN" -> "open"
      [] OTHER -> text

ResolvedStatuses == {"resolved", "deferred", "mitigated", "accepted-risk"}

\* evidence.gaps.filter(gap => gap.priority === 'HIGH' && gap.status && !resolved)
CriticalGaps(gaps) ==
    SelectSeq(gaps, LAMBDA gap : /\ gap.priority = "HIGH"
                                 /\ IsDefined(gap.status)
                                 /\ toLowerCase(ValueOf(gap.status)) \notin ResolvedStatuses)

\* !stageOutput.transcript and !stageOutput.evidence: a key that was never
\* assigned reads as undefined; a result that has evidence has an object there
HasTranscript(out) == "transcript" \in DOMAIN out /\ IsDefined(out.transcript)
HasEvidence(out) == "evidence" \in DOMAIN out

GapCheck(isObject, has, count, gaps) ==
    [isObject |-> isObject, hasCriticalGaps |-> has, count |-> count, gaps |-> gaps]

\* stageOutput is <<>> when stageOutputs has no entry for the last stage; a
\* transcript, when a result has one, is the number of matches of the gap
\* pattern in it; file is what the evidence file holds when it is read.
\* The first return hands back the boolean false, not an object.
checkCriticalGaps(stageOutput, file) ==
    IF \/ ~IsDefined(stageOutput)
       \/ ~HasTranscript(ValueOf(stageOutput))
       \/ ~HasEvidence(ValueOf(stageOutput))
    THEN GapCheck(FALSE, FALSE, 0, Undefined)
    ELSE LET out == ValueOf(stageOutput)
             critical == IF out.evidence.filePath /\ IsDefined(file.gaps)
                         THEN CriticalGaps(ValueOf(file.gaps)) ELSE <<>>
         IN  IF out.evidence.filePath /\ ~file.readable
             THEN GapCheck(TRUE, FALSE, 0, Undefined)
             ELSE IF Len(critical) > 0
             THEN GapCheck(TRUE, TRUE, Len(critical), Some(critical))
             ELSE IF ValueOf(out.transcript) > 2
             THEN GapCheck(TRUE, TRUE, ValueOf(out.transcript), Undefined)
             ELSE GapCheck(TRUE, FALSE, 0, Undefined)

\* variant: one completed stage makes the pass a success
SuccessOf_anyComplete(failed, outputs) ==
    \E n \in DOMAIN outputs : outputs[n].status = "complete"

\* failedStage === null && !Object.values(stageOutputs).some(s => s.status === 'failed')
SuccessOf(failed, outputs) ==
    failed = Undefined /\ ~\E n \in DOMAIN outputs : outputs[n].status = "failed"

\* variant: every successful pass restarts, whatever the count and the gaps
IterationDecision_alwaysRestart(succeeded, enabled, currentIteration, maxIterations, gapCheck) ==
    IF succeeded /\ enabled THEN "restart-detected" ELSE "not-enabled"

\* variant: a failed pass is run again while iterations remain
IterationDecision_restartsOnFailure(succeeded, enabled, currentIteration, maxIterations, gapCheck) ==
    IF enabled
    THEN IF currentIteration < maxIterations
         THEN IF ~succeeded \/ (gapCheck.isObject /\ gapCheck.hasCriticalGaps)
              THEN "restart-detected" ELSE "no-gaps"
         ELSE "reached-max"
    ELSE "not-enabled"

\* the status the iteration check of executeWorkflow arrives at
IterationDecision(succeeded, enabled, currentIteration, maxIterations, gapCheck) ==
    IF succeeded /\ enabled
    THEN IF currentIteration < maxIterations
         THEN IF gapCheck.isObject /\ gapCheck.hasCriticalGaps
              THEN "restart-detected" ELSE "no-gaps"
         ELSE "reached-max"
    ELSE "not-enabled"

(***************************************************************************)
(* Stage executor and workflow scheduler (queue.js)                        *)
(***************************************************************************)
\* workflow.stages[workflow.stages.findIndex(s => s.name === stageName)]
StageByName(wf, n) ==
    LET hits == {k \in 1..Len(wf.stages) : wf.stages[k].name = n}
    IN  wf.stages[CHOOSE k \in hits : \A m \in hits : k <= m]

\* variant: the stage's own retries setting is ignored
maxRetriesOf_workflowOnly(stage, wf) ==
    IF IsDefined(wf.retryOnFailure) THEN ValueOf(wf.retryOnFailure) ELSE 0

\* stage.retries !== undefined ? stage.retries : (workflow.retryOnFailure || 0)
maxRetriesOf(stage, wf) ==
    IF IsDefined(stage.retries) THEN ValueOf(stage.retries)
    ELSE IF IsDefined(wf.retryOnFailure) THEN ValueOf(wf.retryOnFailure) ELSE 0

\* stage.timeoutMinutes || workflow.stageTimeoutMinutes || 15: the definitions
\* of the model set neither field
DefaultStageTimeoutMinutes == 15

\* stageTimeoutMinutes * 60, computed once before the attempt loop
stageTimeoutSecondsOf(stage, wf) == DefaultStageTimeoutMinutes * 60

\* the timeout handed to agentSpawner and to waitForCompletion at an attempt
AttemptTimeout(stage, wf, attemptNumber) == stageTimeoutSecondsOf(stage, wf)

\* errorHandlingResult?.recoveryResult?.backoff
\*     ? Math.ceil(errorHandlingResult.recoveryResult.backoff / 1000) : 5 * attempt
delaySecondsOf(errorHandlingResult, attemptNumber) ==
    IF /\ IsDefined(errorHandlingResult)
       /\ IsDefined(ValueOf(errorHandlingResult).recoveryResult)
       /\ "backoff" \in DOMAIN ValueOf(ValueOf(errorHandlingResult).recoveryResult)
    THEN (ValueOf(ValueOf(errorHandlingResult).recoveryResult).backoff + 999) \div 1000
    ELSE 5 * attemptNumber

\* variant: a workflow without stopOnError continues after a failure
stopOnErrorOf_defaultFalse(wf) ==
    IF IsDefined(wf.stopOnError) THEN ValueOf(wf.stopOnError) ELSE FALSE

\* workflow.stopOnError !== undefined ? workflow.stopOnError : true
stopOnErrorOf(wf) ==
    IF IsDefined(wf.stopOnError) THEN ValueOf(wf.stopOnError) ELSE TRUE

\* variant: only a dependency without any result counts as unmet
unmetDeps_absentOnly(stage, outputs) ==
    SelectSeq(stage.dependencies, LAMBDA dep : dep \notin DOMAIN outputs)

\* variant: only a failed dependency counts as unmet
unmetDeps_failedOnly(stage, outputs) ==
    SelectSeq(stage.dependencies,
              LAMBDA dep : dep \in DOMAIN outputs /\ outputs[dep].status = "failed")

\* stage.dependencies.filter(dep => !stageOutputs[dep] || stageOutputs[dep].status !== 'complete')
unmetDeps(stage, outputs) ==
    SelectSeq(stage.dependencies,
              LAMBDA dep : dep \notin DOMAIN outputs \/ outputs[dep].status # "complete")

\* `const result` is declared inside the try block of executeStage; the catch
\* block reads result?.sessionId, an identifier that is not in its scope
ResultInCatchScope == FALSE

\* messages of the errors executeStage raises itself
SessionTimeoutMessage == {"agent_spawn_failed"}                  \* "Session ... did not complete within ... seconds"
AbandonedMessage == {"agent_spawn_failed", "abandoned_stage"}    \* "... was abandoned: session inactive ..."
EvidenceFailedMessage == {"invalid_input", "validation_failed"}  \* "... failed evidence validation: ..."

\* the text is `Stage "${stageName}" failed evidence validation: ` followed by
\* the validation errors, which quote the evidence file path: a path below a
\* directory named workspace matches /space/, and a stage named after what it
\* tests can match /timeout/
EvidenceFailedMessages ==
    {EvidenceFailedMessage \cup quoted : quoted \in {{}, {"resource_exhausted"}, {"timeout"}}}

\* messages of the errors the injected spawner raises
SpawnerMessages == {{"agent_spawn_failed"}, {"invalid_input"}, {"network_error"}}

\* the working directory as the three git commands find it: `git status
\* --short` fails (not a repository, no git), or lists nothing, or lists a
\* path ending in .md, or lists other paths only; `git add -A` and `git
\* commit` succeed or fail
GitRepository(status, addFails, commitFails) ==
    [status |-> status, addFails |-> addFails, commitFails |-> commitFails]

\* a command that is not reached is listed as succeeding
GitRepositories ==
    {GitRepository("fails", FALSE, FALSE), GitRepository("clean", FALSE, FALSE),
     GitRepository("otherChanges", FALSE, FALSE), GitRepository("otherChanges", TRUE, FALSE),
     GitRepository("docChanges", FALSE, FALSE), GitRepository("docChanges", TRUE, FALSE),
     GitRepository("docChanges", FALSE, TRUE)}

\* the object checkAndCommitChanges hands back, or the fact that it threw
GitAnswer(committed, reason, threw) ==
    [committed |-> committed, reason |-> reason, threw |-> threw]

\* whether one of the execSync calls the function reaches throws
GitCommandFails(repo) ==
    \/ repo.status = "fails"
    \/ repo.status \in {"docChanges", "otherChanges"} /\ repo.addFails
    \/ repo.status = "docChanges" /\ repo.commitFails

\* variant: the git commands run outside a try block
checkAndCommitChanges_noCatch(repo) ==
    IF GitCommandFails(repo) THEN GitAnswer(FALSE, "Git error", TRUE)
    ELSE IF repo.status = "clean" THEN GitAnswer(FALSE, "No changes", FALSE)
    ELSE IF repo.status = "docChanges" THEN GitAnswer(TRUE, "", FALSE)
    ELSE GitAnswer(FALSE, "Non-documentation changes staged", FALSE)

\* checkAndCommitChanges(stageName, gitAuthor): the whole body is one try
\* block whose catch answers committed: false
checkAndCommitChanges(repo) ==
    IF GitCommandFails(repo) THEN GitAnswer(FALSE, "Git error", FALSE)
    ELSE IF repo.status = "clean" THEN GitAnswer(FALSE, "No changes", FALSE)
    ELSE IF repo.status = "docChanges" THEN GitAnswer(TRUE, "", FALSE)
    ELSE GitAnswer(FALSE, "Non-documentation changes staged", FALSE)

\* the message of an error of execSync, which names the command that failed
GitFailedMessage == {}

\* variant: the validation result is not looked at
EvidenceGate_open(valid) == TRUE

\* if (!evidenceValidation.valid) throw
EvidenceGate(valid) == valid

\* variant: executeStage is called without await
AwaitSettled_noAwait(sp) == TRUE

\* `await executeStage(...)`: the scheduler continues once the call has settled
AwaitSettled(sp) == sp \in {"returned", "thrown"}

(***************************************************************************)
(* Graph vocabulary used to state the properties                           *)
(***************************************************************************)
UniqueNames(stages) ==
    \A k, m \in 1..Len(stages) : stages[k].name = stages[m].name => k = m

DepsExist(stages) ==
    \A k \in 1..Len(stages) : Range(stages[k].dependencies) \subseteq Range(stageNamesOf(stages))

DepsOf(stages, n) ==
    UNION {Range(stages[k].dependencies) : k \in {m \in 1..Len(stages) : stages[m].name = n}}

RECURSIVE Closure(_, _)
Closure(stages, seen) ==
    LET next == seen \cup UNION {DepsOf(stages, n) : n \in seen}
    IN  IF next = seen THEN seen ELSE Closure(stages, next)

\* the direct and transitive dependencies of n
TransDeps(stages, n) == Closure(stages, DepsOf(stages, n))

OnCycle(stages, n) == n \in TransDeps(stages, n)

HasCycle(stages) == \E n \in Range(stageNamesOf(stages)) : OnCycle(stages, n)

StageGraph(stages) == UniqueNames(stages) /\ DepsExist(stages)

IndexOf(seq, x) == CHOOSE k \in 1..Len(seq) : seq[k] = x

(***************************************************************************)
(* Direct calls of the sorter                                              *)
(***************************************************************************)
ExecIdle ==
    /\ errorHandler = FALSE /\ resourceManager = FALSE /\ checkpoint = FALSE
    /\ pc = "idle" /\ thrown = "" /\ executionOrder = <<>> /\ i = 0
    /\ stageOutputs = <<>> /\ failedStage = <<>> /\ success = <<>>
    /\ stagePc = "idle" /\ cur = "" /\ attempt = 0 /\ lastError = <<>> /\ stageThrown = ""
    /\ evidenceValid = <<>> /\ spawnCount = <<>> /\ active = {} /\ validatedAt = <<>>
    /\ persistence = FALSE /\ context = NoContext /\ workflowState = <<>>
    /\ iterationStatus = <<>> /\ gapFile = <<>> /\ restarts = 0
    /\ timeoutsUsed = <<>> /\ delaysUsed = <<>> /\ gitResult = <<>>

execVars == <<errorHandler, resourceManager, checkpoint, pc, thrown,
              executionOrder, i, stageOutputs, failedStage, success, stagePc, cur,
              attempt, lastError, stageThrown, evidenceValid, spawnCount, active,
              validatedAt, persistence, context, workflowState, iterationStatus,
              gapFile, restarts, timeoutsUsed, delaysUsed, gitResult>>

fileVars == <<disk, lastOp>>

\* the variables of the direct calls of waitForCompletion and validateWorkflow
pureVars == <<gapCall, evidenceCall, saveCall>>

\* no direct call of checkCriticalGaps, validateCompletionEvidence or the
\* save and load of a state object is under way
NoPureCall == gapCall = <<>> /\ evidenceCall = <<>> /\ saveCall = <<>>

callVars == <<wait, validated, pureVars>>

\* no direct call of waitForCompletion or validateWorkflow is under way
NoCall == wait = <<>> /\ validated = <<>> /\ NoPureCall

InitSort ==
    /\ workflow \in {Workflow(st, Undefined, Undefined) : st \in StageLists(NameLists, DepLists, {Undefined}, Len(StageNames))}
    /\ sortResult = Undefined
    /\ errIn = <<>> /\ decision = <<>>
    /\ disk = <<>> /\ lastOp = <<>>
    /\ NoCall
    /\ ExecIdle

CallTopologicalSort ==
    /\ pc = "idle" /\ sortResult = Undefined
    /\ sortResult' = Some(topologicalSort(workflow.stages))
    /\ UNCHANGED <<workflow, errIn, decision>>
    /\ UNCHANGED <<execVars, fileVars, callVars>>

NextSort == CallTopologicalSort

SpecSort == InitSort /\ [][NextSort]_vars

(***************************************************************************)
(* C1: for a workflow with unique stage names, existing dependencies and   *)
(* an acyclic dependency relation, topologicalSort returns a list holding  *)
(* every stage name exactly once, each stage after all its dependencies.   *)
(***************************************************************************)
C1_SortOrdersDependencies ==
    (IsDefined(sortResult) /\ StageGraph(workflow.stages) /\ ~HasCycle(workflow.stages)) =>
        LET r == ValueOf(sortResult)
            stages == workflow.stages
        IN  /\ r.kind = "return"
            /\ Len(r.value) = Len(stages)
            /\ Range(r.value) = Range(stageNamesOf(stages))
            /\ \A k \in 1..Len(stages) : \A dep \in Range(stages[k].dependencies) :
                   IndexOf(r.value, dep) < IndexOf(r.value, stages[k].name)

\* three stages sorted into an order that differs from the definition order
C1_Witness ==
    /\ IsDefined(sortResult) /\ StageGraph(workflow.stages) /\ ~HasCycle(workflow.stages)
    /\ Len(workflow.stages) = 3
    /\ ValueOf(sortResult).kind = "return"
    /\ ValueOf(sortResult).value = <<"C", "B", "A">>

(***************************************************************************)
(* C2: for a stage graph with a dependency cycle, a self-dependency        *)
(* included, topologicalSort throws an error that names at least one stage *)
(* lying on a cycle, and returns no order.                                 *)
(***************************************************************************)
C2_CycleThrowsNamingCycleStage ==
    (IsDefined(sortResult) /\ StageGraph(workflow.stages) /\ HasCycle(workflow.stages)) =>
        LET r == ValueOf(sortResult)
        IN  /\ r.kind = "throw"
            /\ "value" \notin DOMAIN r
            /\ \E n \in Range(r.error.stages) : OnCycle(workflow.stages, n)

\* a self-dependent stage next to a sortable one: the error names only the former
C2_Witness ==
    /\ IsDefined(sortResult) /\ StageGraph(workflow.stages)
    /\ Len(workflow.stages) = 2
    /\ OnCycle(workflow.stages, "B") /\ ~OnCycle(workflow.stages, "A")
    /\ ValueOf(sortResult).kind = "throw"
    /\ ValueOf(sortResult).error.stages = <<"B">>


(***************************************************************************)
(* executeWorkflow                                                         *)
(***************************************************************************)
cfgVars == <<workflow, errorHandler, resourceManager, checkpoint, persistence>>
directVars == <<sortResult, errIn, decision, lastOp, wait, validated, pureVars>>
storeVars == <<workflowState, disk>>
iterVars == <<context, iterationStatus, gapFile, restarts>>
stageVars == <<stagePc, cur, attempt, lastError, stageThrown, evidenceValid, gitResult>>
timingVars == <<timeoutsUsed, delaysUsed>>
historyVars == <<spawnCount, active, validatedAt>>

\* the three modules are required in one try block, in this order, so a later
\* one is loaded only if the earlier ones are
ModuleLoads == {<<FALSE, FALSE>>, <<TRUE, FALSE>>, <<TRUE, TRUE>>}

\* persistence.js is required after resource-manager.js in the same try block
PersistenceLoads(resourceManagerLoaded) ==
    IF resourceManagerLoaded THEN BOOLEAN ELSE {FALSE}

InitRun(workflows, contexts, files) ==
    /\ workflow \in workflows
    /\ \E m \in ModuleLoads : errorHandler = m[1] /\ resourceManager = m[2]
    /\ persistence \in PersistenceLoads(resourceManager)
    /\ checkpoint \in BOOLEAN
    /\ context \in contexts /\ disk \in files
    /\ workflowState = <<>> /\ lastOp = <<>>
    /\ iterationStatus = <<>> /\ gapFile = <<>> /\ restarts = 0
    /\ pc = "start" /\ thrown = "" /\ executionOrder = <<>> /\ i = 0
    /\ stageOutputs = <<>> /\ failedStage = <<>> /\ success = <<>>
    /\ stagePc = "idle" /\ cur = "" /\ attempt = 0 /\ lastError = <<>> /\ stageThrown = ""
    /\ evidenceValid = <<>> /\ gitResult = <<>>
    /\ spawnCount = [n \in NameSet |-> 0]
    /\ active = {}
    /\ validatedAt = [n \in NameSet |-> {}]
    /\ timeoutsUsed = <<>> /\ delaysUsed = <<>>
    /\ NoCall
    /\ sortResult = <<>> /\ errIn = <<>> /\ decision = <<>>

InitExec(workflows) == InitRun(workflows, {NoContext}, {Undefined})

\* validation and sorting, up to the iteration configuration
Begin ==
    /\ pc = "start"
    /\ LET validation == validateWorkflow(workflow)
           order == topologicalSort(workflow.stages)
       IN  IF ~validation.valid
           THEN pc' = "threw" /\ thrown' = "Invalid workflow" /\ UNCHANGED executionOrder
           ELSE IF order.kind = "throw"
                THEN pc' = "threw" /\ thrown' = "Circular dependency detected"
                     /\ UNCHANGED executionOrder
                ELSE pc' = "prepare" /\ executionOrder' = order.value /\ UNCHANGED thrown
    /\ UNCHANGED <<i, stageOutputs, failedStage, success>>
    /\ UNCHANGED <<cfgVars, directVars, stageVars, historyVars, storeVars, iterVars, timingVars>>

\* the resumption or the creation of the persisted state, then the
\* pre-workflow cleanup and resource validation, up to the stage loop.  A new
\* WorkflowState gets a generated id: it is the modelled file when none exists
\* yet, and another file, which the model does not follow, otherwise.  The
\* context saved in a resumed state is not merged into the context.
Prepare ==
    /\ pc = "prepare"
    /\ LET resuming == persistence /\ IsDefined(context.workflowId)
           r == resumeWorkflow(disk)
           resumed == resuming /\ r.kind = "return"
           fresh == [isResume |-> FALSE, ownFile |-> disk = Undefined,
                     state |-> WorkflowState(currentIterationOf(context))]
       IN  IF resuming /\ r.kind = "throw" /\ context.requireResume # Some(FALSE)
           THEN /\ pc' = "threw" /\ thrown' = r.message
                /\ UNCHANGED <<i, workflowState, disk>>
           ELSE /\ workflowState' =
                      IF resumed
                      THEN Some([isResume |-> TRUE, ownFile |-> TRUE, state |-> ValueOf(r.file)])
                      ELSE IF persistence THEN Some(fresh) ELSE Undefined
                /\ disk' = IF resumed THEN r.file
                           ELSE IF persistence /\ fresh.ownFile
                                THEN saveWorkflowState(fresh.state) ELSE disk
                /\ \E writable \in BOOLEAN :
                      IF resourceManager /\ preWorkflowCleanup(writable) # <<>>
                      THEN pc' = "threw"
                           /\ thrown' = CleanupFailedMessage(preWorkflowCleanup(writable))
                           /\ UNCHANGED i
                      ELSE pc' = "loop" /\ i' = 1 /\ UNCHANGED thrown
    /\ UNCHANGED <<executionOrder, stageOutputs, failedStage, success>>
    /\ UNCHANGED <<cfgVars, directVars, stageVars, historyVars, iterVars, timingVars>>

\* isResume && workflowState && workflowState.completedStages.includes(stageName)
AlreadyCompleted(ws, stageName) ==
    /\ IsDefined(ws) /\ ValueOf(ws).isResume
    /\ stageName \in Range(ValueOf(ws).state.completedStages)

\* the loop body for a stage that is not executed: a resumed run reuses the
\* saved result of a completed stage, and a stage with unmet dependencies is
\* recorded as skipped
SkipStage ==
    /\ pc = "loop" /\ i <= Len(executionOrder)
    /\ LET stageName == executionOrder[i]
           stage == StageByName(workflow, stageName)
       IN  IF AlreadyCompleted(workflowState, stageName)
           THEN LET saved == ValueOf(workflowState).state.stageOutputs
                IN  stageOutputs' = (stageName :> IF stageName \in DOMAIN saved
                                                  THEN saved[stageName] ELSE ResumedResult)
                                        @@ stageOutputs
           ELSE /\ unmetDeps(stage, stageOutputs) # <<>>
                /\ stageOutputs' = (stageName :> [status |-> "skipped", attempts |-> 0])
                                        @@ stageOutputs
    /\ i' = i + 1
    /\ UNCHANGED <<pc, thrown, executionOrder, failedStage, success>>
    /\ UNCHANGED <<cfgVars, directVars, stageVars, historyVars, storeVars, iterVars, timingVars>>

\* the loop body calls executeStage, which runs up to its first attempt: the
\* contextFrom callback may throw, and the retry loop may run no iteration
StartStage ==
    /\ pc = "loop" /\ i <= Len(executionOrder)
    /\ LET stageName == executionOrder[i]
           stage == StageByName(workflow, stageName)
       IN  /\ ~AlreadyCompleted(workflowState, stageName)
           /\ unmetDeps(stage, stageOutputs) = <<>>
           /\ cur' = stageName
           /\ \E contextFromThrows \in BOOLEAN :
                 IF contextFromThrows
                 THEN stagePc' = "thrown" /\ stageThrown' = "contextFrom callback failed"
                      /\ attempt' = 0
                 ELSE IF 1 <= maxRetriesOf(stage, workflow) + 1
                      THEN stagePc' = "spawn" /\ stageThrown' = "" /\ attempt' = 1
                      ELSE stagePc' = "thrown" /\ stageThrown' = "TypeError" /\ attempt' = 1
    /\ pc' = "await"
    /\ lastError' = <<>> /\ evidenceValid' = <<>> /\ gitResult' = <<>>
    /\ timeoutsUsed' = <<>> /\ delaysUsed' = <<>>
    /\ UNCHANGED <<thrown, executionOrder, i, stageOutputs, failedStage, success>>
    /\ UNCHANGED <<cfgVars, directVars, historyVars, storeVars, iterVars>>

\* agentSpawner(task, agentId, timeout): throws, answers synchronously, or
\* hands back a session
Spawn ==
    /\ stagePc = "spawn"
    /\ spawnCount' = [spawnCount EXCEPT ![cur] = @ + 1]
    /\ active' = active \cup {cur}
    /\ evidenceValid' = <<>> /\ gitResult' = <<>>
    /\ timeoutsUsed' = Append(timeoutsUsed,
                              AttemptTimeout(StageByName(workflow, cur), workflow, attempt))
    /\ \/ \E m \in SpawnerMessages : lastError' = Some(m) /\ stagePc' = "catch"
       \/ stagePc' = "validate" /\ UNCHANGED lastError
       \/ stagePc' = "wait" /\ UNCHANGED lastError
    /\ UNCHANGED <<pc, thrown, executionOrder, i, stageOutputs, failedStage, success>>
    /\ UNCHANGED <<cur, attempt, stageThrown, validatedAt, delaysUsed>>
    /\ UNCHANGED <<cfgVars, directVars, storeVars, iterVars>>

\* waitForCompletion: the session completes or the stage timeout passes
Wait ==
    /\ stagePc = "wait"
    /\ \/ stagePc' = "abandon" /\ UNCHANGED lastError
       \/ lastError' = Some(SessionTimeoutMessage) /\ stagePc' = "catch"
    /\ UNCHANGED <<pc, thrown, executionOrder, i, stageOutputs, failedStage, success>>
    /\ UNCHANGED <<cur, attempt, stageThrown, evidenceValid, gitResult>>
    /\ UNCHANGED <<cfgVars, directVars, historyVars, storeVars, iterVars, timingVars>>

\* detectAbandonedStage, then saveStageOutput
AbandonCheck ==
    /\ stagePc = "abandon"
    /\ \/ stagePc' = "validate" /\ UNCHANGED lastError
       \/ lastError' = Some(AbandonedMessage) /\ stagePc' = "catch"
    /\ UNCHANGED <<pc, thrown, executionOrder, i, stageOutputs, failedStage, success>>
    /\ UNCHANGED <<cur, attempt, stageThrown, evidenceValid, gitResult>>
    /\ UNCHANGED <<cfgVars, directVars, historyVars, storeVars, iterVars, timingVars>>

\* validateCompletionEvidence on the output; what it finds depends on the
\* output text and on the files on disk
Validate ==
    /\ stagePc = "validate"
    /\ \E valid \in BOOLEAN :
          /\ evidenceValid' = Some(valid)
          /\ validatedAt' = IF valid THEN [validatedAt EXCEPT ![cur] = @ \cup {attempt}]
                            ELSE validatedAt
          /\ IF EvidenceGate(valid)
             THEN stagePc' = "commit" /\ UNCHANGED lastError
             ELSE /\ \E m \in EvidenceFailedMessages : lastError' = Some(m)
                  /\ stagePc' = "catch"
    /\ UNCHANGED <<pc, thrown, executionOrder, i, stageOutputs, failedStage, success>>
    /\ UNCHANGED <<cur, attempt, stageThrown, spawnCount, active, gitResult>>
    /\ UNCHANGED <<cfgVars, directVars, storeVars, iterVars, timingVars>>

\* `await checkAndCommitChanges(...)` inside the try block of the attempt,
\* then the return of the result; an error it threw would reach the catch block
Commit ==
    /\ stagePc = "commit"
    /\ \E repo \in GitRepositories :
          LET answer == checkAndCommitChanges(repo)
          IN  /\ gitResult' = Some([repo |-> repo, answer |-> answer])
              /\ IF answer.threw
                 THEN /\ lastError' = Some(GitFailedMessage) /\ stagePc' = "catch"
                      /\ UNCHANGED active
                 ELSE /\ stagePc' = "returned" /\ active' = active \ {cur}
                      /\ UNCHANGED lastError
    /\ UNCHANGED <<pc, thrown, executionOrder, i, stageOutputs, failedStage, success>>
    /\ UNCHANGED <<cur, attempt, stageThrown, evidenceValid, spawnCount, validatedAt>>
    /\ UNCHANGED <<cfgVars, directVars, storeVars, iterVars, timingVars>>

\* the catch block of the attempt: error handling, the retry decision, the
\* delay, and the loop condition of the next iteration
Catch ==
    /\ stagePc = "catch"
    /\ LET stage == StageByName(workflow, cur)
           maxRetries == maxRetriesOf(stage, workflow)
           h == handleWorkflowError(ValueOf(lastError),
                                    [attempt |-> attempt, maxRetries |-> maxRetries,
                                     currentTimeout |-> stageTimeoutSecondsOf(stage, workflow)])
           errorHandlingResult == IF errorHandler THEN Some(h) ELSE Undefined
           shouldRetry == IF errorHandler THEN h.shouldRetry ELSE attempt <= maxRetries
       IN  IF (errorHandler \/ checkpoint) /\ ~ResultInCatchScope
           THEN stagePc' = "thrown" /\ stageThrown' = "ReferenceError"
                /\ UNCHANGED <<attempt, delaysUsed>>
           ELSE IF ~shouldRetry
                THEN stagePc' = "thrown" /\ stageThrown' = "errorReport"
                     /\ UNCHANGED <<attempt, delaysUsed>>
                ELSE /\ attempt' = attempt + 1
                     /\ delaysUsed' = Append(delaysUsed,
                                             delaySecondsOf(errorHandlingResult, attempt))
                     /\ IF attempt + 1 <= maxRetries + 1
                        THEN stagePc' = "spawn" /\ UNCHANGED stageThrown
                        ELSE stagePc' = "thrown" /\ stageThrown' = "errorReport"
    /\ active' = active \ {cur}
    /\ UNCHANGED <<pc, thrown, executionOrder, i, stageOutputs, failedStage, success>>
    /\ UNCHANGED <<cur, lastError, evidenceValid, spawnCount, validatedAt, timeoutsUsed, gitResult>>
    /\ UNCHANGED <<cfgVars, directVars, storeVars, iterVars>>

\* the scheduler resumes after `await executeStage`: it stores the result, or
\* records the failure and stops or continues
StageSettled ==
    /\ pc = "await" /\ AwaitSettled(stagePc)
    /\ LET persisted == persistence /\ IsDefined(workflowState) /\ ValueOf(workflowState).ownFile
       IN  disk' = IF ~persisted THEN disk
                   ELSE IF stagePc = "returned"
                        THEN updateStageCompletion(disk, cur, StageResult(attempt))
                        ELSE updateStageFailure(disk, cur, stageThrown)
    /\ IF stagePc = "returned"
       THEN /\ stageOutputs' = (cur :> StageResult(attempt)) @@ stageOutputs
            /\ i' = i + 1 /\ pc' = "loop"
            /\ UNCHANGED failedStage
       ELSE /\ failedStage' = Some(cur)
            /\ stageOutputs' =
                 (cur :> [status |-> "failed",
                          error |-> [message |-> stageThrown,
                                     attempts |-> maxRetriesOf(StageByName(workflow, cur),
                                                               workflow) + 1]]) @@ stageOutputs
            /\ IF stopOnErrorOf(workflow)
               THEN pc' = "finish" /\ UNCHANGED i
               ELSE pc' = "loop" /\ i' = i + 1
    /\ stagePc' = "idle" /\ gitResult' = <<>>
    /\ UNCHANGED <<thrown, executionOrder, success>>
    /\ UNCHANGED <<cur, attempt, lastError, stageThrown, evidenceValid>>
    /\ UNCHANGED <<cfgVars, directVars, historyVars, workflowState, iterVars, timingVars>>

\* what the evidence file of the last stage holds when the pass has ended
GapFiles ==
    {[readable |-> FALSE, gaps |-> Undefined],
     [readable |-> TRUE, gaps |-> Undefined],
     [readable |-> TRUE, gaps |-> Some(<<[priority |-> "HIGH", status |-> Some("open")]>>)],
     [readable |-> TRUE, gaps |-> Some(<<[priority |-> "HIGH", status |-> Some("Deferred")]>>)],
     [readable |-> TRUE, gaps |-> Some(<<[priority |-> "LOW", status |-> Some("OPEN")],
                                         [priority |-> "HIGH", status |-> Undefined]>>)]}

\* stageOutputs[executionOrder[executionOrder.length - 1]]
LastStageOutput(order, outputs) ==
    IF order # <<>> /\ order[Len(order)] \in DOMAIN outputs
    THEN Some(outputs[order[Len(order)]]) ELSE Undefined

\* after the loop: the success flag and the iteration check, then either the
\* recursive call of executeWorkflow with the next iteration, or the marking
\* of the persisted state and the returned aggregate
Finish ==
    /\ pc = "finish" \/ (pc = "loop" /\ i > Len(executionOrder))
    /\ LET succeeded == SuccessOf(failedStage, stageOutputs)
           currentIteration == currentIterationOf(context)
           lastStageOutput == LastStageOutput(executionOrder, stageOutputs)
           files == IF IsDefined(lastStageOutput) /\ HasEvidence(ValueOf(lastStageOutput))
                    THEN {Some(f) : f \in GapFiles} ELSE {Undefined}
       IN  \E file \in files :
             LET gapCheck == IF IsDefined(file) THEN checkCriticalGaps(lastStageOutput, ValueOf(file))
                             ELSE GapCheck(FALSE, FALSE, 0, Undefined)
                 status == IterationDecision(succeeded, iterationEnabledOf(workflow),
                                             currentIteration, maxIterationsOf(workflow),
                                             gapCheck)
             IN  /\ gapFile' = file
                 /\ IF status = "restart-detected"
                    THEN /\ currentIteration < MaxIteration
                         /\ context' =
                              [context EXCEPT
                                 !.iteration = Some(currentIteration + 1),
                                 !.previousIterations =
                                     Append(@, [iteration |-> currentIteration,
                                                stageOutputs |-> stageOutputs,
                                                gaps |-> gapCheck.gaps])]
                         /\ restarts' = restarts + 1
                         /\ pc' = "start" /\ executionOrder' = <<>> /\ i' = 0
                         /\ stageOutputs' = <<>> /\ failedStage' = <<>>
                         /\ workflowState' = <<>>
                         /\ cur' = "" /\ attempt' = 0 /\ lastError' = <<>>
                         /\ stageThrown' = "" /\ evidenceValid' = <<>>
                         /\ spawnCount' = [n \in NameSet |-> 0]
                         /\ validatedAt' = [n \in NameSet |-> {}]
                         /\ timeoutsUsed' = <<>> /\ delaysUsed' = <<>>
                         /\ UNCHANGED <<success, iterationStatus, disk, stagePc, active, gitResult>>
                    ELSE /\ success' = Some(succeeded)
                         /\ iterationStatus' = Some(status)
                         /\ pc' = "done"
                         /\ disk' = IF /\ persistence /\ IsDefined(workflowState)
                                       /\ ValueOf(workflowState).ownFile /\ succeeded
                                    THEN markWorkflowCompleted(disk) ELSE disk
                         /\ UNCHANGED <<executionOrder, i, stageOutputs, failedStage,
                                        workflowState, context, restarts>>
                         /\ UNCHANGED <<stageVars, historyVars, timingVars>>
    /\ UNCHANGED <<thrown, cfgVars, directVars>>

\* cancelWorkflow(workflowName) of queue.js, called from outside the run: it
\* looks for a state of that name with status running and cancels it
ExternalCancel ==
    /\ persistence
    /\ IsDefined(disk) /\ ValueOf(disk).status = "running"
    /\ disk' = cancelWorkflow(disk).file
    /\ UNCHANGED <<pc, thrown, executionOrder, i, stageOutputs, failedStage, success>>
    /\ UNCHANGED <<cfgVars, directVars, stageVars, historyVars, workflowState, iterVars, timingVars>>

Next ==
    \/ Begin \/ Prepare \/ SkipStage \/ StartStage
    \/ Spawn \/ Wait \/ AbandonCheck \/ Validate \/ Commit \/ Catch
    \/ StageSettled \/ Finish \/ ExternalCancel

\* workflows of the scheduler: every dependency shape over the stage names,
\* with and without a repeated name
ExecNameLists(n) ==
    {[k \in 1..n |-> StageNames[k]]}
        \cup (IF n >= 2 THEN {[k \in 1..n |-> IF k = n THEN StageNames[1] ELSE StageNames[k]]}
              ELSE {})

ExecDepLists ==
    {<<>>, <<Unknown>>} \cup {<<a>> : a \in NameSet}
        \cup {<<StageNames[a], StageNames[b]>> : a, b \in 1..Len(StageNames)}

Workflows ==
    {Workflow(st, soe, rof) :
        st \in StageLists(ExecNameLists, ExecDepLists, {Undefined}, Len(StageNames)),
        soe \in {Undefined, Some(TRUE), Some(FALSE)},
        rof \in {Undefined, Some(1)}}

Init == InitExec(Workflows)

Spec == Init /\ [][Next]_vars


\* workflows of the retry loop: one stage, or two stages of which the second
\* may depend on the first, with every retry setting
RetryNameLists(n) == {[k \in 1..n |-> StageNames[k]]}

RetryChoices == {Undefined} \cup {Some(r) : r \in 0..MaxRetries}

RetryWorkflows ==
    {Workflow(st, soe, rof) :
        st \in StageLists(RetryNameLists, {<<>>, <<StageNames[1]>>}, RetryChoices, 2),
        soe \in {Undefined, Some(FALSE)},
        rof \in RetryChoices}

InitRetry == InitExec(RetryWorkflows)

SpecRetry == InitRetry /\ [][Next]_vars

\* workflows of the iteration controller: the retry loop's stage lists without
\* retries, with every iteration setting, called at every iteration number
IterationChoices == {Undefined} \cup {Some(m) : m \in 0..MaxStartIteration}

IterWorkflows ==
    {IterationWorkflow(Workflow(st, soe, Undefined), enabled, maxIter) :
        st \in StageLists(RetryNameLists, {<<>>, <<StageNames[1]>>}, {Undefined}, 2),
        soe \in {Undefined, Some(FALSE)},
        enabled \in {Undefined, Some(TRUE), Some(FALSE)},
        maxIter \in IterationChoices}

IterContexts == {Context(it, Undefined, Undefined) : it \in IterationChoices}

InitIter == InitRun(IterWorkflows, IterContexts, {Undefined})

SpecIter == InitIter /\ [][Next]_vars

\* every step of the scheduler and of the stage executor is eventually taken:
\* each await settles, and so does each attempt of a stage
SpecIterFair == SpecIter /\ WF_vars(Next)

\* resumed runs: a two-stage chain, called with or without the id of a state
\* file that earlier calls of the state store left behind
ResumeWorkflows ==
    {Workflow(<<Stage(StageNames[1], <<>>, Undefined),
                Stage(StageNames[2], <<StageNames[1]>>, Undefined)>>, soe, Undefined) :
        soe \in {Undefined, Some(FALSE)}}

ResumeContexts ==
    {NoContext} \cup {Context(Undefined, Some("wf-1"), rr) : rr \in {Undefined, Some(TRUE), Some(FALSE)}}

ResumeFiles ==
    LET created == saveWorkflowState(WorkflowState(0))
        oneDone == updateStageCompletion(created, StageNames[1], StageResult(1))
        failed == updateStageFailure(oneDone, StageNames[2], "errorReport")
        allDone == updateStageCompletion(oneDone, StageNames[2], StageResult(1))
    IN  {Undefined, created, oneDone, failed, cancelWorkflow(oneDone).file,
         allDone, markWorkflowCompleted(allDone)}

InitResume == InitRun(ResumeWorkflows, ResumeContexts, ResumeFiles)

SpecResume == InitResume /\ [][Next]_vars

(***************************************************************************)
(* Direct calls of the recovery advisor                                    *)
(***************************************************************************)
InitDecide ==
    /\ errIn \in {Some([message |-> m, attempt |-> a, maxRetries |-> r,
                         currentTimeout |-> DefaultStageTimeoutMinutes * 60]) :
                    m \in Messages, a \in 1..MaxAttempt, r \in 0..MaxRetries}
    /\ decision = <<>>
    /\ workflow = Workflow(<<>>, Undefined, Undefined)
    /\ sortResult = <<>>
    /\ disk = <<>> /\ lastOp = <<>>
    /\ NoCall
    /\ ExecIdle

CallAdvisor ==
    /\ pc = "idle" /\ IsDefined(errIn) /\ decision = <<>>
    /\ LET in == ValueOf(errIn)
           classification == classifyError(in.message)
       IN  decision' = Some([classification |-> classification,
                             decision |-> decideRecoveryAction(classification, in)])
    /\ UNCHANGED <<workflow, sortResult, errIn>>
    /\ UNCHANGED <<execVars, fileVars, callVars>>

NextDecide == CallAdvisor

SpecDecide == InitDecide /\ [][NextDecide]_vars

(***************************************************************************)
(* Direct calls of the state store                                         *)
(***************************************************************************)
InitPersist ==
    /\ disk = <<>> /\ lastOp = <<>>
    /\ workflow = Workflow(<<>>, Undefined, Undefined)
    /\ sortResult = <<>> /\ errIn = <<>> /\ decision = <<>>
    /\ NoCall
    /\ ExecIdle

Called(op) == lastOp' = Some([op |-> op, before |-> disk])

\* new persistence.WorkflowState({...}) followed by saveWorkflowState
CallSaveWorkflowState ==
    /\ pc = "idle" /\ disk = Undefined
    /\ disk' = saveWorkflowState(WorkflowState(0))
    /\ Called("saveWorkflowState")
    /\ UNCHANGED <<workflow, sortResult, errIn, decision, execVars, callVars>>

CallUpdateStageCompletion ==
    /\ pc = "idle"
    /\ \E n \in NameSet : disk' = updateStageCompletion(disk, n, StageResult(1))
    /\ Called("updateStageCompletion")
    /\ UNCHANGED <<workflow, sortResult, errIn, decision, execVars, callVars>>

CallUpdateStageFailure ==
    /\ pc = "idle"
    /\ \E n \in NameSet : disk' = updateStageFailure(disk, n, "errorReport")
    /\ Called("updateStageFailure")
    /\ UNCHANGED <<workflow, sortResult, errIn, decision, execVars, callVars>>

CallMarkWorkflowCompleted ==
    /\ pc = "idle"
    /\ disk' = markWorkflowCompleted(disk)
    /\ Called("markWorkflowCompleted")
    /\ UNCHANGED <<workflow, sortResult, errIn, decision, execVars, callVars>>

CallCancelWorkflow ==
    /\ pc = "idle"
    /\ disk' = cancelWorkflow(disk).file
    /\ Called("cancelWorkflow")
    /\ UNCHANGED <<workflow, sortResult, errIn, decision, execVars, callVars>>

CallResumeWorkflow ==
    /\ pc = "idle"
    /\ disk' = resumeWorkflow(disk).file
    /\ Called("resumeWorkflow")
    /\ UNCHANGED <<workflow, sortResult, errIn, decision, execVars, callVars>>

\* cleanupOldStates on a file older than the retention time
CallCleanupOldStates ==
    /\ pc = "idle" /\ IsDefined(disk)
    /\ disk' = Undefined
    /\ Called("cleanupOldStates")
    /\ UNCHANGED <<workflow, sortResult, errIn, decision, execVars, callVars>>

NextPersist ==
    \/ CallSaveWorkflowState \/ CallUpdateStageCompletion \/ CallUpdateStageFailure
    \/ CallMarkWorkflowCompleted \/ CallCancelWorkflow \/ CallResumeWorkflow
    \/ CallCleanupOldStates

SpecPersist == InitPersist /\ [][NextPersist]_vars

(***************************************************************************)
(* Direct calls of validateWorkflow                                        *)
(***************************************************************************)
\* definitions of up to two stages with every dependency array: repeated
\* names, unknown dependencies, self-dependencies and two-stage cycles
ValidateWorkflows ==
    {Workflow(st, Undefined, Undefined) : st \in StageLists(NameLists, DepLists, {Undefined}, 2)}

InitValidate ==
    /\ workflow \in ValidateWorkflows
    /\ validated = <<>> /\ wait = <<>> /\ NoPureCall
    /\ disk = <<>> /\ lastOp = <<>>
    /\ sortResult = <<>> /\ errIn = <<>> /\ decision = <<>>
    /\ ExecIdle

CallValidateWorkflow ==
    /\ pc = "idle" /\ validated = <<>>
    /\ validated' = Some(validateWorkflow(workflow))
    /\ UNCHANGED <<workflow, sortResult, errIn, decision, wait, pureVars, execVars, fileVars>>

NextValidate == CallValidateWorkflow

SpecValidate == InitValidate /\ [][NextValidate]_vars

(***************************************************************************)
(* Completion wait (queue.js): direct calls of waitForCompletion.  Times   *)
(* are in seconds.  A view is what `openclaw sessions --json` shows of the *)
(* session when the list is read: the command may fail, the session may be *)
(* missing from the list, and a listed session has a status and, when it   *)
(* has an updatedAt, a time since its last update.                         *)
(***************************************************************************)
PollIntervalSeconds == 5
InactivityThresholdSeconds == 300

ListFailure == [readable |-> FALSE, found |-> FALSE, inactive |-> Undefined, status |-> "none"]
NotListed == [readable |-> TRUE, found |-> FALSE, inactive |-> Undefined, status |-> "none"]
Listed(inactive, status) ==
    [readable |-> TRUE, found |-> TRUE, inactive |-> inactive, status |-> status]

SessionViews ==
    {ListFailure, NotListed}
        \cup {Listed(inactive, status) :
                 inactive \in {Undefined, Some(0), Some(InactivityThresholdSeconds),
                               Some(InactivityThresholdSeconds + 1)},
                 status \in {"running", "complete", "error"}}

\* (now - lastUpdated) / 1000 > 300, where lastUpdated is 0 for a session
\* without updatedAt, so that its inactive time is the time since 1970
InactiveTooLong(view) ==
    view.inactive = Undefined \/ ValueOf(view.inactive) > InactivityThresholdSeconds

\* isSessionComplete: its catch block answers true when the list cannot be read
isSessionComplete(view) ==
    IF ~view.readable THEN TRUE
    ELSE IF ~view.found THEN TRUE
    ELSE IF InactiveTooLong(view) THEN TRUE
    ELSE view.status \in {"complete", "error"}

\* if (elapsed > timeoutMs) throw
TimedOut(elapsed, timeoutSeconds) == elapsed > timeoutSeconds

\* variant: the loop polls again without waiting and the clock stands still
NextPollTime_noSleep(elapsed, latency) == elapsed

\* Date.now() - startTime at the next pass of the loop: the sleep of
\* pollIntervalMs and the time the pass itself took
NextPollTime(elapsed, latency) == elapsed + PollIntervalSeconds + latency

WaitCall(timeoutSeconds, view) ==
    [pc |-> "poll", timeoutSeconds |-> timeoutSeconds, elapsed |-> 0, view |-> view,
     cause |-> Undefined, error |-> Undefined]

InitWait ==
    /\ wait \in {Some(WaitCall(t, v)) : t \in 0..MaxWaitTimeout, v \in SessionViews}
    /\ validated = <<>> /\ NoPureCall
    /\ disk = <<>> /\ lastOp = <<>>
    /\ workflow = Workflow(<<>>, Undefined, Undefined)
    /\ sortResult = <<>> /\ errIn = <<>> /\ decision = <<>>
    /\ ExecIdle

\* the top of the loop: the timeout test, then the list is read; the catch
\* block of the loop answers completed when the list cannot be read
WaitPoll ==
    /\ IsDefined(wait) /\ ValueOf(wait).pc = "poll"
    /\ LET w == ValueOf(wait)
       IN  wait' = Some(IF TimedOut(w.elapsed, w.timeoutSeconds)
                        THEN [w EXCEPT !.pc = "thrown", !.error = Some(SessionTimeoutMessage)]
                        ELSE IF ~w.view.readable \/ ~w.view.found
                        THEN [w EXCEPT !.pc = "returned", !.cause = Some(w.view)]
                        ELSE [w EXCEPT !.pc = "check"])
    /\ UNCHANGED <<workflow, sortResult, errIn, decision, validated, pureVars, execVars, fileVars>>

\* await isSessionComplete(sessionId), which reads the list again, then the
\* return or the sleep before the next poll
WaitCheck ==
    /\ IsDefined(wait) /\ ValueOf(wait).pc = "check"
    /\ LET w == ValueOf(wait)
       IN  IF isSessionComplete(w.view)
           THEN wait' = Some([w EXCEPT !.pc = "returned", !.cause = Some(w.view)])
           ELSE \E latency \in 0..MaxPollLatency :
                   wait' = Some([w EXCEPT !.pc = "poll",
                                          !.elapsed = NextPollTime(w.elapsed, latency)])
    /\ UNCHANGED <<workflow, sortResult, errIn, decision, validated, pureVars, execVars, fileVars>>

\* the session, which runs in another process, changes while the wait goes on
SessionMoves ==
    /\ IsDefined(wait) /\ ValueOf(wait).pc \in {"poll", "check"}
    /\ \E v \in SessionViews \ {ValueOf(wait).view} :
          wait' = Some([ValueOf(wait) EXCEPT !.view = v])
    /\ UNCHANGED <<workflow, sortResult, errIn, decision, validated, pureVars, execVars, fileVars>>

NextWait == WaitPoll \/ WaitCheck \/ SessionMoves

SpecWait == InitWait /\ [][NextWait]_vars

\* the event loop runs the wait whenever it can continue; nothing is assumed
\* about the session
SpecWaitFair == SpecWait /\ WF_vars(WaitPoll \/ WaitCheck)

(***************************************************************************)
(* Direct calls of checkCriticalGaps                                       *)
(***************************************************************************)
MaxGapMatches == 3    \* most matches of the gap pattern in a transcript
MaxGaps == 2          \* longest gaps array of an evidence file

GapPriorities == {"HIGH", "MEDIUM"}

GapStatuses == {Undefined, Some("open"), Some("resolved"), Some("Deferred")}

GapEntries == {[priority |-> p, status |-> st] : p \in GapPriorities, st \in GapStatuses}

GapArrays == UNION {[1..n -> GapEntries] : n \in 0..MaxGaps}

\* what JSON.parse(readFileSync(evidence.filePath)) finds: nothing readable,
\* an object without a gaps array, or an object with one
EvidenceFiles ==
    {[readable |-> FALSE, gaps |-> Undefined], [readable |-> TRUE, gaps |-> Undefined]}
        \cup {[readable |-> TRUE, gaps |-> Some(g)] : g \in GapArrays}

\* the stage outputs the function is handed: none, or a result whose
\* transcript is missing, null or a text with some matches of the gap
\* pattern, and whose evidence is missing, without a file path or with one
StageOutputArgs ==
    {Undefined} \cup
    {Some([status |-> "complete"] @@ t @@ e) :
        t \in {<<>>} \cup {"transcript" :> tr :
                              tr \in {Undefined} \cup {Some(k) : k \in 0..MaxGapMatches}},
        e \in {<<>>} \cup {"evidence" :> [filePath |-> fp] : fp \in BOOLEAN}}

InitGaps ==
    /\ gapCall \in {Some([stageOutput |-> out, file |-> f, result |-> Undefined]) :
                        out \in StageOutputArgs, f \in EvidenceFiles}
    /\ evidenceCall = <<>> /\ saveCall = <<>>
    /\ wait = <<>> /\ validated = <<>>
    /\ disk = <<>> /\ lastOp = <<>>
    /\ workflow = Workflow(<<>>, Undefined, Undefined)
    /\ sortResult = <<>> /\ errIn = <<>> /\ decision = <<>>
    /\ ExecIdle

CallCheckCriticalGaps ==
    /\ IsDefined(gapCall) /\ ~IsDefined(ValueOf(gapCall).result)
    /\ LET c == ValueOf(gapCall)
       IN  gapCall' = Some([c EXCEPT !.result = Some(checkCriticalGaps(c.stageOutput, c.file))])
    /\ UNCHANGED <<workflow, sortResult, errIn, decision, wait, validated,
                   evidenceCall, saveCall, execVars, fileVars>>

NextGaps == CallCheckCriticalGaps

SpecGaps == InitGaps /\ [][NextGaps]_vars

(***************************************************************************)
(* Evidence validator (queue.js, validateCompletionEvidence)               *)
(***************************************************************************)
MaxAgeSteps == 3      \* the clock of a direct call advances this many steps at most
AgeStepMs == 50       \* milliseconds in one step of that clock
MaxValidations == 2   \* calls of the validator on one output and one set of files

RecentThresholdMs == 100

\* variant: files up to 150 ms old are called too recent
TooRecent_laterThreshold(ageMs) == ageMs < RecentThresholdMs + AgeStepMs

\* const ageMs = Date.now() - stats.mtimeMs; if (ageMs < 100)
TooRecent(ageMs) == ageMs < RecentThresholdMs

\* an entry of the errors array; the too-recent message quotes the age
EvidenceError(text) == [text |-> text, ageMs |-> Undefined]

TooRecentError(ageMs) == [text |-> "Evidence file created too recently", ageMs |-> Some(ageMs)]

\* the output text, by what the validator can tell of it: whether
\* /\{[\s\S]*"evidenceType"[\s\S]*\}/ matches, whether JSON.parse accepts the
\* match, whether the text holds a JSON object with an evidenceType key, and
\* whether the parsed object has a filePath and a fixLog.  A text the pattern
\* does not match holds no such object; a match that is not such an object
\* quotes the word between braces, as in {"fields":["evidenceType"]}
OutputText(matched, parses, hasKey, filePath, fixLog) ==
    [matched |-> matched, parses |-> parses, hasKey |-> hasKey,
     filePath |-> filePath, fixLog |-> fixLog]

OutputTexts ==
    {OutputText(FALSE, FALSE, FALSE, FALSE, FALSE)}
        \cup {OutputText(TRUE, FALSE, k, FALSE, FALSE) : k \in BOOLEAN}
        \cup {OutputText(TRUE, TRUE, k, fp, fl) : k \in BOOLEAN, fp \in BOOLEAN, fl \in BOOLEAN}

\* the file evidence.filePath names: fs.stat fails with ENOENT or with another
\* error, or it succeeds; then the file is empty or not, fs.readFile fails or
\* gives the content, which has a fake marker in under 200 characters or not,
\* and a test-output marker or not
EvidenceFile(stat, empty, readable, fake, testOutput) ==
    [stat |-> stat, empty |-> empty, readable |-> readable, fake |-> fake,
     testOutput |-> testOutput]

EvidenceFileStates ==
    {EvidenceFile(st, FALSE, FALSE, FALSE, FALSE) : st \in {"ENOENT", "error"}}
        \cup {EvidenceFile("ok", e, FALSE, FALSE, FALSE) : e \in BOOLEAN}
        \cup {EvidenceFile("ok", TRUE, TRUE, FALSE, FALSE)}
        \cup {EvidenceFile("ok", FALSE, TRUE, fk, t) : fk \in BOOLEAN, t \in BOOLEAN}

\* fs.access on the fix log: it exists, fails with ENOENT, or fails otherwise
FixLogStates == {"exists", "ENOENT", "error"}

\* the block under `if (evidence.filePath)` with its catch
EvidenceFileErrors(file, ageMs, isDocStage) ==
    IF file.stat = "ENOENT" THEN <<EvidenceError("Evidence file does not exist")>>
    ELSE IF file.stat = "error" THEN <<EvidenceError("Error checking evidence file")>>
    ELSE (IF TooRecent(ageMs) THEN <<TooRecentError(ageMs)>> ELSE <<>>)
         \o (IF file.empty THEN <<EvidenceError("Evidence file is empty")>> ELSE <<>>)
         \o (IF ~file.readable THEN <<EvidenceError("Error checking evidence file")>>
             ELSE (IF file.fake
                   THEN <<EvidenceError("Evidence contains fake verification marker")>>
                   ELSE <<>>)
                  \o (IF ~isDocStage /\ ~file.testOutput
                      THEN <<EvidenceError("Evidence file lacks actual test output")>>
                      ELSE <<>>))

\* the block under `if (evidence.fixLog || isDocStage)`: only ENOENT is reported
FixLogErrors(fixLog) ==
    IF fixLog = "ENOENT" THEN <<EvidenceError("Fix log does not exist")>> ELSE <<>>

ValidationResult(errors, evidence) ==
    [valid |-> Len(errors) = 0, evidence |-> evidence, errors |-> errors]

\* validateCompletionEvidence(output, stageName, isDocStage) with the files it
\* finds; the evidence handed back is the parsed object, <<>> for null
validateCompletionEvidence(output, isDocStage, file, fixLog, ageMs) ==
    IF ~output.matched
    THEN ValidationResult(<<EvidenceError("No completionEvidence object found in agent output")>>,
                          Undefined)
    ELSE IF ~output.parses
    THEN ValidationResult(<<EvidenceError("Failed to parse evidence JSON")>>, Undefined)
    ELSE ValidationResult(
             (IF ~isDocStage /\ ~output.filePath /\ ~output.fixLog
              THEN <<EvidenceError("Evidence missing required fields: filePath or fixLog")>>
              ELSE <<>>)
             \o (IF output.filePath THEN EvidenceFileErrors(file, ageMs, isDocStage) ELSE <<>>)
             \o (IF output.fixLog \/ isDocStage THEN FixLogErrors(fixLog) ELSE <<>>),
             Some([filePath |-> output.filePath, fixLog |-> output.fixLog]))

Ages == {k * AgeStepMs : k \in 0..MaxAgeSteps}

\* a direct call: the output and the files stay as they are, the clock moves
InitEvidence ==
    /\ evidenceCall \in
          {Some([output |-> o, isDocStage |-> d, file |-> f, fixLog |-> fl,
                 ageMs |-> a, results |-> <<>>]) :
              o \in OutputTexts, d \in BOOLEAN, f \in EvidenceFileStates,
              fl \in FixLogStates, a \in Ages}
    /\ gapCall = <<>> /\ saveCall = <<>>
    /\ wait = <<>> /\ validated = <<>>
    /\ disk = <<>> /\ lastOp = <<>>
    /\ workflow = Workflow(<<>>, Undefined, Undefined)
    /\ sortResult = <<>> /\ errIn = <<>> /\ decision = <<>>
    /\ ExecIdle

CallValidateCompletionEvidence ==
    /\ IsDefined(evidenceCall) /\ Len(ValueOf(evidenceCall).results) < MaxValidations
    /\ LET c == ValueOf(evidenceCall)
           r == validateCompletionEvidence(c.output, c.isDocStage, c.file, c.fixLog, c.ageMs)
       IN  evidenceCall' =
              Some([c EXCEPT !.results = Append(@, [atAgeMs |-> c.ageMs, valid |-> r.valid,
                                                    errors |-> r.errors,
                                                    evidence |-> r.evidence])])
    /\ UNCHANGED <<workflow, sortResult, errIn, decision, wait, validated,
                   gapCall, saveCall, execVars, fileVars>>

\* time passes while the files stay untouched
TimePasses ==
    /\ IsDefined(evidenceCall)
    /\ ValueOf(evidenceCall).ageMs + AgeStepMs <= MaxAgeSteps * AgeStepMs
    /\ evidenceCall' = Some([ValueOf(evidenceCall) EXCEPT !.ageMs = @ + AgeStepMs])
    /\ UNCHANGED <<workflow, sortResult, errIn, decision, wait, validated,
                   gapCall, saveCall, execVars, fileVars>>

NextEvidence == CallValidateCompletionEvidence \/ TimePasses

SpecEvidence == InitEvidence /\ [][NextEvidence]_vars

(***************************************************************************)
(* State objects and their files (persistence.js): the constructor of      *)
(* WorkflowState, toJSON, fromJSON, and the save and the load of one       *)
(* object.  Times are milliseconds of the clock; the fields kept are       *)
(* lastUpdated, status, iteration, maxIterations, failedStage and          *)
(* errorMessage, and null is <<>>.                                         *)
(***************************************************************************)
MaxClock == 3          \* the clock of a save and load runs from 0 to this

StateDefaultMaxIterations == 3

\* options.x || d for a number: undefined, null and 0 give the default
OrNumber(v, d) == IF IsDefined(v) /\ ValueOf(v) # 0 THEN ValueOf(v) ELSE d

\* options.x || d for a text: undefined, null and '' give the default
OrString(v, d) == IF IsDefined(v) /\ ValueOf(v) # "" THEN ValueOf(v) ELSE d

\* options.x || null for a text
OrNull(v) == IF IsDefined(v) /\ ValueOf(v) # "" THEN v ELSE Undefined

StateOptions(lastUpdated, status, iteration, maxIterations, failed, errorMessage) ==
    [lastUpdated |-> lastUpdated, status |-> status, iteration |-> iteration,
     maxIterations |-> maxIterations, failedStage |-> failed,
     errorMessage |-> errorMessage]

\* new WorkflowState(options) at the time now
WorkflowStateOf(options, now) ==
    [lastUpdated |-> IF IsDefined(options.lastUpdated) THEN ValueOf(options.lastUpdated) ELSE now,
     status |-> OrString(options.status, "running"),
     iteration |-> OrNumber(options.iteration, 0),
     maxIterations |-> OrNumber(options.maxIterations, StateDefaultMaxIterations),
     failedStage |-> OrNull(options.failedStage),
     errorMessage |-> OrNull(options.errorMessage)]

\* state.toJSON(), then JSON.stringify and JSON.parse: a copy of the fields
toJSON(state) ==
    StateOptions(Some(state.lastUpdated), Some(state.status), Some(state.iteration),
                 Some(state.maxIterations), state.failedStage, state.errorMessage)

\* WorkflowState.fromJSON(json): the constructor run on the parsed object
fromJSON(json, now) == WorkflowStateOf(json, now)

\* saveWorkflowState(state) at the time now: the file gets the copy made by
\* toJSON, and lastUpdated of the object is set after the copy was made
SaveAt(state, now) ==
    [file |-> toJSON(state), state |-> [state EXCEPT !.lastUpdated = now]]

\* loadWorkflowState(workflowId) on a file that exists
LoadAt(file, now) == fromJSON(file, now)

\* the state objects executeWorkflow creates (part_006:919-926)
NewStates(now) ==
    {WorkflowStateOf(StateOptions(Undefined, Some("running"), Some(it), Some(m),
                                  Undefined, Undefined), now) :
        it \in 0..MaxStartIteration, m \in 1..StateDefaultMaxIterations}

SaveCall(state, clock, file, loaded) ==
    [state |-> state, clock |-> clock, file |-> file, loaded |-> loaded]

InitRoundTrip ==
    /\ saveCall \in {Some(SaveCall(st, 0, Undefined, Undefined)) : st \in NewStates(0)}
    /\ gapCall = <<>> /\ evidenceCall = <<>>
    /\ wait = <<>> /\ validated = <<>>
    /\ disk = <<>> /\ lastOp = <<>>
    /\ workflow = Workflow(<<>>, Undefined, Undefined)
    /\ sortResult = <<>> /\ errIn = <<>> /\ decision = <<>>
    /\ ExecIdle

\* the clock moves on between two steps of the program
ClockTicks ==
    /\ IsDefined(saveCall) /\ ValueOf(saveCall).clock < MaxClock
    /\ saveCall' = Some([ValueOf(saveCall) EXCEPT !.clock = @ + 1])
    /\ UNCHANGED <<workflow, sortResult, errIn, decision, wait, validated,
                   gapCall, evidenceCall, execVars, fileVars>>

\* the assignments of updateStageFailure to a state object before it is
\* saved (persistence.js:438-443); the message of an Error can be empty
SetFailure ==
    /\ IsDefined(saveCall) /\ ~IsDefined(ValueOf(saveCall).file)
    /\ \E message \in {"", "boom"} :
          saveCall' = Some([ValueOf(saveCall) EXCEPT
                               !.state.failedStage = Some("A"),
                               !.state.errorMessage = Some(message),
                               !.state.lastUpdated = ValueOf(saveCall).clock,
                               !.state.status = "failed"])
    /\ UNCHANGED <<workflow, sortResult, errIn, decision, wait, validated,
                   gapCall, evidenceCall, execVars, fileVars>>

SaveState ==
    /\ IsDefined(saveCall) /\ ~IsDefined(ValueOf(saveCall).file)
    /\ LET c == ValueOf(saveCall)
           saved == SaveAt(c.state, c.clock)
       IN  saveCall' = Some([c EXCEPT !.file = Some(saved.file), !.state = saved.state])
    /\ UNCHANGED <<workflow, sortResult, errIn, decision, wait, validated,
                   gapCall, evidenceCall, execVars, fileVars>>

LoadState ==
    /\ IsDefined(saveCall) /\ IsDefined(ValueOf(saveCall).file)
    /\ ~IsDefined(ValueOf(saveCall).loaded)
    /\ LET c == ValueOf(saveCall)
       IN  saveCall' = Some([c EXCEPT !.loaded = Some(LoadAt(ValueOf(c.file), c.clock))])
    /\ UNCHANGED <<workflow, sortResult, errIn, decision, wait, validated,
                   gapCall, evidenceCall, execVars, fileVars>>

NextRoundTrip == ClockTicks \/ SetFailure \/ SaveState \/ LoadState

SpecRoundTrip == InitRoundTrip /\ [][NextRoundTrip]_vars


(***************************************************************************)
(* Properties of the scheduler and the stage executor                      *)
(***************************************************************************)
StatusIn(outputs, n) == IF n \in DOMAIN outputs THEN outputs[n].status ELSE "absent"

InvalidDefinition(stages) ==
    Len(stages) = 0 \/ ~UniqueNames(stages) \/ ~DepsExist(stages)

NoSpawnYet == \A n \in NameSet : spawnCount[n] = 0

Spawned(n) == spawnCount'[n] > spawnCount[n]

\* the retry limit as the documentation states it
DocumentedMaxRetries(n) ==
    LET stage == StageByName(workflow, n)
    IN  IF stage.retries # Undefined THEN stage.retries[1]
        ELSE IF workflow.retryOnFailure # Undefined THEN workflow.retryOnFailure[1] ELSE 0

(***************************************************************************)
(* C3: when the definition is invalid or its dependency graph is cyclic,   *)
(* executeWorkflow fails before the spawner is invoked for any stage: no   *)
(* stage is executed, not even in part.                                    *)
(***************************************************************************)
C3_InvalidFailsBeforeSpawn ==
    (InvalidDefinition(workflow.stages) \/ HasCycle(workflow.stages)) =>
        /\ NoSpawnYet
        /\ pc \in {"start", "threw"}
        /\ stagePc = "idle"
        /\ stageOutputs = <<>>

\* X depends on Y and Y on X: the validator accepts it and the sorter throws
C3_Witness ==
    /\ pc = "threw" /\ thrown = "Circular dependency detected"
    /\ Len(workflow.stages) = 2
    /\ workflow.stages[1].dependencies = <<"B">>
    /\ workflow.stages[2].dependencies = <<"A">>
    /\ StageGraph(workflow.stages)
    /\ NoSpawnYet

(***************************************************************************)
(* C4: the spawner is invoked for a stage only when each of its            *)
(* dependencies has a result with status complete; a stage the scheduler   *)
(* reaches with a dependency that is failed, skipped or absent is recorded *)
(* as skipped and never spawned, and so are its transitive dependents.     *)
(***************************************************************************)
C4_Step ==
    /\ \A n \in NameSet :
          Spawned(n) => \A dep \in DepsOf(workflow.stages, n) :
                            StatusIn(stageOutputs, dep) = "complete"
    /\ \A n \in DOMAIN stageOutputs' :
          (\E dep \in TransDeps(workflow.stages, n) : StatusIn(stageOutputs', dep) # "complete")
              => stageOutputs'[n].status = "skipped" /\ spawnCount'[n] = 0

C5_Step ==
    (workflow.stopOnError \in {Undefined, Some(TRUE)}) =>
        /\ IsDefined(failedStage) => spawnCount' = spawnCount
        /\ IsDefined(failedStage') =>
              \A n \in DOMAIN stageOutputs' :
                  ValueOf(failedStage') \in TransDeps(workflow.stages, n)
                      => stageOutputs'[n].status # "complete"

C5_StopOnErrorHalts == [][C5_Step]_vars

\* A failed, the independent stage B after it was never started
C5_Witness ==
    /\ pc = "done"
    /\ workflow.stopOnError = Undefined
    /\ failedStage = Some("A")
    /\ executionOrder = <<"A", "B", "C">>
    /\ DepsOf(workflow.stages, "B") = {} /\ DepsOf(workflow.stages, "C") = {"A"}
    /\ DOMAIN stageOutputs = {"A"}
    /\ spawnCount["B"] = 0 /\ spawnCount["C"] = 0

(***************************************************************************)
(* C6: the spawner is never invoked for a stage while an attempt of        *)
(* another stage is in progress, also when both stages have all their      *)
(* dependencies satisfied.                                                 *)
(***************************************************************************)
C6_Step == \A n \in NameSet : Spawned(n) => active \ {n} = {}

C6_OneStageAtATime == [][C6_Step]_vars

\* B needs nothing from A, and it is in flight only after A has completed
C6_Witness ==
    /\ active = {"B"}
    /\ DepsOf(workflow.stages, "B") = {}
    /\ StatusIn(stageOutputs, "A") = "complete"
    /\ stagePc = "wait"

(***************************************************************************)
(* C7: the spawner is invoked for a stage at most maxRetries+1 times,      *)
(* maxRetries being stage.retries when defined and otherwise               *)
(* workflow.retryOnFailure, 0 when that is left out.                       *)
(***************************************************************************)
C7_SpawnsBounded ==
    \A n \in NameSet :
        spawnCount[n] > 0 => spawnCount[n] <= DocumentedMaxRetries(n) + 1

\* stage.retries = 2 overrides retryOnFailure = 0 and all three attempts are made
C7_Witness ==
    /\ Len(workflow.stages) >= 1
    /\ workflow.stages[1].retries = Some(2)
    /\ workflow.retryOnFailure = Some(0)
    /\ spawnCount["A"] = 3
    /\ StatusIn(stageOutputs, "A") = "failed"

(***************************************************************************)
(* C8: when attempts of a stage fail k times (k <= maxRetries) with        *)
(* retryable errors and the next attempt succeeds, the stage is retried    *)
(* after each failure and ends complete with attempts = k+1.               *)
(***************************************************************************)
C8_RetriedUntilSuccess ==
    /\ (stagePc = "thrown" /\ IsDefined(lastError)
            /\ classifyError(ValueOf(lastError)).retryable)
          => attempt >= DocumentedMaxRetries(cur) + 1
    /\ \A n \in DOMAIN stageOutputs :
          stageOutputs[n].status = "complete" => stageOutputs[n].attempts = spawnCount[n]

(***************************************************************************)
(* C9: the retry decision is retry exactly when the classified type is     *)
(* timeout, resource exhaustion, network or agent spawn failure and        *)
(* attempt < maxRetries+1; in every other case it is halt.                 *)
(***************************************************************************)
C9_RetryDecision ==
    IsDefined(decision) =>
        LET in == ValueOf(errIn)
            d == ValueOf(decision)
        IN  /\ d.decision.action \in {"retry", "halt"}
            /\ d.decision.action = "retry"
                  <=> /\ d.classification.type \in {"timeout", "resource_exhausted",
                                                    "network_error", "agent_spawn_failed"}
                      /\ in.attempt < in.maxRetries + 1

\* a network error at the last attempt but one is retried
C9_Witness ==
    /\ IsDefined(decision)
    /\ ValueOf(errIn).message = {"network_error", "validation_failed"}
    /\ ValueOf(errIn).attempt = 2 /\ ValueOf(errIn).maxRetries = 2
    /\ ValueOf(decision).decision.action = "retry"

PassEnds == pc \in {"loop", "finish"} /\ pc' \in {"done", "start"}

Returned == pc \in {"done", "threw"}

NoStageFailed(outputs) == \A n \in DOMAIN outputs : outputs[n].status # "failed"

\* iteration is enabled unless the definition says false
IterationOn(wf) == wf.iterationEnabled # Some(FALSE)

\* the iteration cap of the definition, 3 when it is left out or 0
IterationCap(wf) ==
    IF wf.maxIterations \in {Undefined, Some(0)} THEN 3 ELSE wf.maxIterations[1]

\* the iteration number of the pass, 0 when the context has none
IterationNow(ctx) == IF ctx.iteration = Undefined THEN 0 ELSE ctx.iteration[1]

UnresolvedHigh(gap) ==
    /\ gap.priority = "HIGH"
    /\ gap.status # Undefined
    /\ gap.status[1] \notin {"resolved", "deferred", "mitigated", "accepted-risk",
                              "Deferred"}

\* the evidence file of the last stage lists a critical gap
FileHasCriticalGaps(f) ==
    /\ f # Undefined /\ f[1].readable /\ f[1].gaps # Undefined
    /\ \E k \in 1..Len(f[1].gaps[1]) : UnresolvedHigh(f[1].gaps[1][k])

LastStageComplete ==
    /\ executionOrder # <<>>
    /\ StatusIn(stageOutputs, executionOrder[Len(executionOrder)]) = "complete"

(***************************************************************************)
(* C11: when a pass succeeds with iteration enabled and the iteration      *)
(* number below the cap, and the last stage in execution order completed   *)
(* with an evidence file that lists a gap of priority HIGH with an         *)
(* unresolved status, executeWorkflow is called again with the iteration   *)
(* number raised by one and one Iteration Record appended to the history.  *)
(***************************************************************************)
C11_Step ==
    (/\ PassEnds
     /\ NoStageFailed(stageOutputs)
     /\ IterationOn(workflow)
     /\ IterationNow(context) < IterationCap(workflow)
     /\ LastStageComplete
     /\ FileHasCriticalGaps(gapFile'))
        => /\ pc' = "start"
           /\ restarts' = restarts + 1
           /\ context'.iteration = Some(IterationNow(context) + 1)
           /\ Len(context'.previousIterations) = Len(context.previousIterations) + 1

C11_CriticalGapsRestart == [][C11_Step]_vars

C13_ReachedMaxBelowCap ==
    (pc = "done" /\ iterationStatus = Some("reached-max"))
        => IterationNow(context) <= IterationCap(workflow) - 1

(***************************************************************************)
(* C14: for a successful pass with iteration enabled, the iteration status *)
(* is no-gaps whenever the last stage has no critical gaps, and it is      *)
(* reached-max only when the iteration count is exhausted while critical   *)
(* gaps persist.                                                           *)
(***************************************************************************)
C14_StatusReflectsGaps ==
    (pc = "done" /\ success = Some(TRUE) /\ IterationOn(workflow)) =>
        /\ ~FileHasCriticalGaps(gapFile) => iterationStatus = Some("no-gaps")
        /\ iterationStatus = Some("reached-max") =>
              /\ IterationNow(context) >= IterationCap(workflow)
              /\ FileHasCriticalGaps(gapFile)

(***************************************************************************)
(* C15: a pass in which a stage fails never triggers a restart: the pass,  *)
(* a restarted one (iteration >= 1) included, returns success = false with *)
(* no further call of executeWorkflow, also when iteration is enabled and  *)
(* iterations remain.                                                      *)
(***************************************************************************)
C15_Step ==
    (PassEnds /\ ~NoStageFailed(stageOutputs))
        => /\ pc' = "done"
           /\ success' = Some(FALSE)
           /\ restarts' = restarts
           /\ context' = context

C15_FailedPassNeverRestarts == [][C15_Step]_vars

\* iteration 1 of 3, enabled: A completed, B failed, and the call returned
C15_Witness ==
    /\ pc = "done" /\ success = Some(FALSE)
    /\ IterationNow(context) = 1 /\ IterationCap(workflow) = 3
    /\ workflow.iterationEnabled = Some(TRUE)
    /\ StatusIn(stageOutputs, "A") = "complete"
    /\ StatusIn(stageOutputs, "B") = "failed"
    /\ restarts = 0

(***************************************************************************)
(* C16: once the persisted state has status completed or cancelled, no     *)
(* operation other than retention cleanup changes any of its fields: not   *)
(* the stage-completion, stage-failure or mark-completed update of a run.  *)
(***************************************************************************)
C16_Step ==
    (/\ IsDefined(disk)
     /\ ValueOf(disk).status \in {"completed", "cancelled"}
     /\ lastOp' # Some([op |-> "cleanupOldStates", before |-> disk]))
        => disk' = disk

C16_TerminalStateFrozen == [][C16_Step]_vars

(***************************************************************************)
(* C17: when the running workflow is marked cancelled from outside while a *)
(* stage is in flight, the scheduler does not spawn the following stages.  *)
(***************************************************************************)
C17_Step ==
    (/\ IsDefined(workflowState) /\ ValueOf(workflowState).ownFile
     /\ IsDefined(disk) /\ ValueOf(disk).status = "cancelled"
     /\ stagePc = "idle")
        => spawnCount' = spawnCount

C17_CancelStopsSpawning == [][C17_Step]_vars

\* the case of C17: a run that owns the persisted state is inside its stage loop
C17_RunWithStateInLoop ==
    /\ IsDefined(workflowState) /\ ValueOf(workflowState).ownFile
    /\ pc \in {"loop", "await", "finish", "done"}

(***************************************************************************)
(* C18: in every persisted workflow state, status = completed implies      *)
(* failedStage = null and errorMessage = null, under any sequence of       *)
(* stage-completion, stage-failure, resume, cancel and mark-completed.     *)
(***************************************************************************)
C18_CompletedHasNoFailure ==
    (IsDefined(disk) /\ ValueOf(disk).status = "completed") =>
        /\ ValueOf(disk).failedStage = Undefined
        /\ ValueOf(disk).errorMessage = Undefined

\* a state that recorded the failure of B is marked completed
C18_Witness ==
    /\ IsDefined(disk) /\ ValueOf(disk).status = "completed"
    /\ IsDefined(lastOp) /\ ValueOf(lastOp).op = "markWorkflowCompleted"
    /\ IsDefined(ValueOf(lastOp).before)
    /\ ValueOf(ValueOf(lastOp).before).failedStage = Some("B")
    /\ ValueOf(ValueOf(lastOp).before).errorMessage = Some("errorReport")

(***************************************************************************)
(* C19: when a workflow is resumed from a persisted state, the spawner is  *)
(* never invoked for a stage listed in completedStages, the saved results  *)
(* of those stages are reused as complete, and every other stage is        *)
(* executed in execution order subject to the dependency rule.             *)
(***************************************************************************)
C19_ResumeReusesCompleted ==
    (IsDefined(workflowState) /\ ValueOf(workflowState).isResume) =>
        LET completed == Range(ValueOf(workflowState).state.completedStages)
        IN  /\ \A n \in completed : spawnCount[n] = 0
            /\ Returned =>
                  /\ pc = "done"
                  /\ \A n \in Range(executionOrder) :
                        /\ n \in completed => StatusIn(stageOutputs, n) = "complete"
                        /\ (n \notin completed /\ failedStage = Undefined)
                              => StatusIn(stageOutputs, n) = "complete" /\ spawnCount[n] > 0

(***************************************************************************)
(* C20: the returned success flag is true if and only if no stage result   *)
(* of the returned stage map has status failed; skipped stages do not make *)
(* it false.                                                               *)
(***************************************************************************)
C20_SuccessIffNoFailedStage ==
    pc = "done" => /\ IsDefined(success)
                   /\ ValueOf(success) <=> NoStageFailed(stageOutputs)

\* A failed, B which depends on A was skipped, the independent C completed
C20_Witness ==
    /\ pc = "done" /\ success = Some(FALSE)
    /\ StatusIn(stageOutputs, "A") = "failed"
    /\ StatusIn(stageOutputs, "B") = "skipped"
    /\ StatusIn(stageOutputs, "C") = "complete"

\* the first stage in execution order whose result is failed, <<>> when none is
FirstFailed(order, outputs) ==
    LET failed == {k \in 1..Len(order) : StatusIn(outputs, order[k]) = "failed"}
    IN  IF failed = {} THEN Undefined
        ELSE Some(order[CHOOSE k \in failed : \A m \in failed : k <= m])

(***************************************************************************)
(* C21: the returned failedStage is the first stage that failed during the *)
(* pass, and null when none failed, also when stopOnError is false and     *)
(* several stages fail.                                                    *)
(***************************************************************************)
C21_FailedStageIsFirstFailure ==
    pc = "done" => failedStage = FirstFailed(executionOrder, stageOutputs)

(***************************************************************************)
(* C22: with stopOnError = false a stage failure does not stop the pass:   *)
(* every stage whose dependencies are all complete is executed, every      *)
(* stage that depends directly or transitively on a failed stage is        *)
(* skipped, and every stage of the workflow ends the pass with a result of *)
(* status complete, failed or skipped.                                     *)
(***************************************************************************)
C22_ContinuesAfterFailure ==
    (pc = "done" /\ workflow.stopOnError = Some(FALSE)) =>
        LET stages == workflow.stages
            failed == {n \in NameSet : StatusIn(stageOutputs, n) = "failed"}
        IN  /\ DOMAIN stageOutputs = Range(stageNamesOf(stages))
            /\ \A n \in DOMAIN stageOutputs :
                  /\ stageOutputs[n].status \in {"complete", "failed", "skipped"}
                  /\ TransDeps(stages, n) \cap failed # {}
                        => stageOutputs[n].status = "skipped"
                  /\ (\A dep \in DepsOf(stages, n) : StatusIn(stageOutputs, dep) = "complete")
                        => stageOutputs[n].status \in {"complete", "failed"}

\* A failed; B, which depends on A, and C, which depends on B, were skipped
C22_WitnessTransitive ==
    /\ pc = "done" /\ workflow.stopOnError = Some(FALSE)
    /\ executionOrder = <<"A", "B", "C">>
    /\ StageByName(workflow, "C").dependencies = <<"B">>
    /\ StatusIn(stageOutputs, "A") = "failed"
    /\ StatusIn(stageOutputs, "B") = "skipped"
    /\ StatusIn(stageOutputs, "C") = "skipped"

\* A failed, the independent B was spawned after it and completed, and C,
\* which depends on both, was skipped
C22_Witness ==
    /\ pc = "done" /\ workflow.stopOnError = Some(FALSE)
    /\ executionOrder = <<"A", "B", "C">>
    /\ StageByName(workflow, "C").dependencies = <<"A", "B">>
    /\ StatusIn(stageOutputs, "A") = "failed"
    /\ StatusIn(stageOutputs, "B") = "complete" /\ spawnCount["B"] > 0
    /\ StatusIn(stageOutputs, "C") = "skipped"

\* the attempts count a terminal stage result reports
ReportedAttempts(result) ==
    IF result.status = "failed" THEN result.error.attempts ELSE result.attempts

(***************************************************************************)
(* C23: in every terminal stage result the reported attempts count is the  *)
(* number of tries actually made: the number of the attempt that completed *)
(* for a complete stage, and min(failures, maxRetries + 1) for a failed    *)
(* one, also when the stage halts early on a non-retryable error.  Stages  *)
(* that failed before their first attempt are left aside.                  *)
(***************************************************************************)
C23_AttemptsCountTries ==
    \A n \in DOMAIN stageOutputs :
        LET result == stageOutputs[n]
            maxRetries == maxRetriesOf(StageByName(workflow, n), workflow)
        IN  (result.status \in {"complete", "failed"} /\ spawnCount[n] > 0) =>
                ReportedAttempts(result) = Min(spawnCount[n], maxRetries + 1)

\* what the recovery advisor answers for the error of the current attempt
AdvisorAnswer ==
    LET stage == StageByName(workflow, cur)
    IN  handleWorkflowError(ValueOf(lastError),
                            [attempt |-> attempt,
                             maxRetries |-> maxRetriesOf(stage, workflow),
                             currentTimeout |-> stageTimeoutSecondsOf(stage, workflow)])

(***************************************************************************)
(* C24: when an attempt is declared abandoned, its error is classified     *)
(* under the abandoned error type, which is not retryable, and the stage   *)
(* halts without another attempt.                                          *)
(***************************************************************************)
C24_Step ==
    (stagePc = "catch" /\ lastError = Some(AbandonedMessage)) =>
        /\ AdvisorAnswer.errorType = "abandoned_stage"
        /\ ~AdvisorAnswer.retryable
        /\ stagePc' = "thrown"

C24_AbandonedHalts == [][C24_Step]_vars

(***************************************************************************)
(* C25: an attempt that fails evidence validation is a failure that is not *)
(* retried: whatever the stage name, the file paths and the validation     *)
(* messages put into the error text, the error is classified under a type  *)
(* that is not retryable and the stage is not spawned again because of it. *)
(***************************************************************************)
C25_Step ==
    (stagePc = "catch" /\ evidenceValid = Some(FALSE)) =>
        /\ ~AdvisorAnswer.retryable
        /\ stagePc' = "thrown"

C25_EvidenceFailureNotRetried == [][C25_Step]_vars

WaitEnded == IsDefined(wait) /\ ValueOf(wait).pc \in {"returned", "thrown"}

C27_CompleteOnlyWhenDone ==
    (IsDefined(wait) /\ ValueOf(wait).pc = "returned") =>
        LET seen == ValueOf(ValueOf(wait).cause)
        IN  /\ seen.readable
            /\ \/ ~seen.found
               \/ seen.status \in {"complete", "error"}
               \/ InactiveTooLong(seen)

(***************************************************************************)
(* C28: when attempt n fails with an error classified as a network error   *)
(* and a retry is decided, the delay awaited before the next attempt is    *)
(* the exponential backoff min(2^(n-1), 30) seconds, used instead of the   *)
(* default delay of 5 * n seconds.                                         *)
(***************************************************************************)
C28_Step ==
    (/\ stagePc = "catch" /\ errorHandler
     /\ AdvisorAnswer.errorType = "network_error"
     /\ AdvisorAnswer.shouldRetry)
        => /\ stagePc' = "spawn"
           /\ delaysUsed' = Append(delaysUsed, Min(2 ^ (attempt - 1), 30))

C28_NetworkBackoffApplied == [][C28_Step]_vars

Last(seq) == seq[Len(seq)]

(***************************************************************************)
(* C29: after an attempt failed because the session did not complete       *)
(* within the stage timeout, the retry is spawned and awaited with a       *)
(* larger timeout than the failed attempt.                                 *)
(***************************************************************************)
C29_Step ==
    (/\ stagePc = "spawn" /\ attempt > 1
     /\ lastError = Some(SessionTimeoutMessage)
     /\ Len(timeoutsUsed') = Len(timeoutsUsed) + 1)
        => Last(timeoutsUsed') > Last(timeoutsUsed)

C29_RetryTimeoutExtended == [][C29_Step]_vars

(***************************************************************************)
(* C30: validateWorkflow returns valid: false for every definition with a  *)
(* duplicated stage name, a dependency that names no stage, or a circular  *)
(* dependency, and valid: true for a definition with at least one stage,   *)
(* unique names, existing dependencies and no cycle.                       *)
(***************************************************************************)
C30_ValidationRejectsInvalid ==
    IsDefined(validated) =>
        LET stages == workflow.stages
            result == ValueOf(validated)
        IN  /\ (~UniqueNames(stages) \/ ~DepsExist(stages) \/ HasCycle(stages))
                  => ~result.valid
            /\ (stages # <<>> /\ StageGraph(stages) /\ ~HasCycle(stages))
                  => result.valid

(***************************************************************************)
(* C31: with maxIterations set to 0, a successful workflow called at       *)
(* iteration 0 with iteration enabled runs one pass, never restarts, and   *)
(* returns the iteration status reached-max with iteration.current = 0.    *)
(***************************************************************************)
C31_ZeroMaxIterations ==
    (/\ pc = "done" /\ success = Some(TRUE)
     /\ IterationOn(workflow)
     /\ workflow.maxIterations = Some(0)
     /\ IterationNow(context) = restarts)
        => /\ restarts = 0
           /\ IterationNow(context) = 0
           /\ iterationStatus = Some("reached-max")

\* the stage output handed to checkCriticalGaps carries a transcript
GapCallHasTranscript ==
    /\ IsDefined(gapCall) /\ IsDefined(ValueOf(gapCall).stageOutput)
    /\ HasTranscript(ValueOf(ValueOf(gapCall).stageOutput))

\* the evidence of the stage output names a file that parses as JSON
EvidenceJsonAvailable ==
    /\ IsDefined(gapCall) /\ IsDefined(ValueOf(gapCall).stageOutput)
    /\ HasEvidence(ValueOf(ValueOf(gapCall).stageOutput))
    /\ ValueOf(ValueOf(gapCall).stageOutput).evidence.filePath
    /\ ValueOf(gapCall).file.readable

\* the entries of the parsed evidence file that count as critical
CountedEntries ==
    LET f == ValueOf(gapCall).file
    IN  IF f.gaps = Undefined THEN {}
        ELSE {k \in 1..Len(f.gaps[1]) : UnresolvedHigh(f.gaps[1][k])}

GapCallReturned == IsDefined(gapCall) /\ IsDefined(ValueOf(gapCall).result)

(***************************************************************************)
(* C32: a gap entry of the last stage's evidence file counts as critical   *)
(* iff its priority is HIGH and its status is not resolved, deferred,      *)
(* mitigated or accepted-risk, and checkCriticalGaps answers that the gaps *)
(* are critical iff at least one entry of the file counts.                 *)
(***************************************************************************)
C32_CriticalIffEntryCounts ==
    (GapCallReturned /\ EvidenceJsonAvailable)
        => LET r == ValueOf(ValueOf(gapCall).result)
           IN  /\ (r.isObject /\ r.hasCriticalGaps) <=> CountedEntries # {}
               /\ IsDefined(r.gaps) => Len(ValueOf(r.gaps)) = Cardinality(CountedEntries)

(***************************************************************************)
(* C33: for a stage output with a transcript, the transcript scan decides  *)
(* exactly when no evidence JSON is available, and then the gaps are       *)
(* critical iff the scan finds more than 2 matches; when evidence JSON is  *)
(* available the answer is its entries' alone.                             *)
(***************************************************************************)
C33_TranscriptScanOnlyWithoutEvidence ==
    (GapCallReturned /\ GapCallHasTranscript)
        => LET r == ValueOf(ValueOf(gapCall).result)
               matches == ValueOf(ValueOf(ValueOf(gapCall).stageOutput).transcript)
           IN  (r.isObject /\ r.hasCriticalGaps)
                  <=> IF EvidenceJsonAvailable THEN CountedEntries # {} ELSE matches > 2

\* the answers the direct calls of the validator have given so far
ValidationResults == IF IsDefined(evidenceCall) THEN ValueOf(evidenceCall).results ELSE <<>>

\* the validator looks at the evidence file: the output parses to an object
\* with a filePath and fs.stat succeeds
EvidenceFileExamined ==
    /\ IsDefined(evidenceCall)
    /\ ValueOf(evidenceCall).output.matched /\ ValueOf(evidenceCall).output.parses
    /\ ValueOf(evidenceCall).output.filePath
    /\ ValueOf(evidenceCall).file.stat = "ok"

(***************************************************************************)
(* C34: when the output holds no JSON object with an evidenceType key, the *)
(* validator answers valid: false with the single error 'No                *)
(* completionEvidence object found in agent output', and the stage         *)
(* executor fails the attempt.                                             *)
(***************************************************************************)
C34_NoEvidenceObjectRejected ==
    \A k \in 1..Len(ValidationResults) :
        ~ValueOf(evidenceCall).output.hasKey
            => /\ ~ValidationResults[k].valid
               /\ ValidationResults[k].errors
                     = <<[text |-> "No completionEvidence object found in agent output",
                          ageMs |-> <<>>]>>
               /\ ~EvidenceGate(ValidationResults[k].valid)

(***************************************************************************)
(* C35: validating the same output against the same unchanged files twice  *)
(* gives the same valid flag and the same error list, provided that the    *)
(* evidence file, when the validator looks at it, was last modified at     *)
(* least 100 ms before the first call.                                     *)
(***************************************************************************)
C35_RevalidationAgrees ==
    (/\ Len(ValidationResults) = 2
     /\ EvidenceFileExamined => ValidationResults[1].atAgeMs >= 100)
        => /\ ValidationResults[1].valid = ValidationResults[2].valid
           /\ ValidationResults[1].errors = ValidationResults[2].errors

\* C35 as stated: whatever the time between the two calls and the age of the file
C35_Original ==
    Len(ValidationResults) = 2
        => /\ ValidationResults[1].valid = ValidationResults[2].valid
           /\ ValidationResults[1].errors = ValidationResults[2].errors

\* a test stage's evidence file with test output, 100 ms old at the first
\* call and older at the second, accepted both times
C35_Witness ==
    /\ Len(ValidationResults) = 2
    /\ EvidenceFileExamined
    /\ ~ValueOf(evidenceCall).isDocStage
    /\ ValueOf(evidenceCall).file.testOutput
    /\ ValidationResults[1].atAgeMs >= 100
    /\ ValidationResults[2].atAgeMs > ValidationResults[1].atAgeMs
    /\ ValidationResults[1].valid /\ ValidationResults[2].valid

(***************************************************************************)
(* C36: for a stage that is not a documentation stage, the validator       *)
(* answers valid only if it read evidence file content that holds a        *)
(* test-result marker.                                                     *)
(***************************************************************************)
C36_ValidNeedsTestOutput ==
    \A k \in 1..Len(ValidationResults) :
        (~ValueOf(evidenceCall).isDocStage /\ ValidationResults[k].valid)
            => /\ EvidenceFileExamined
               /\ ValueOf(evidenceCall).file.readable
               /\ ValueOf(evidenceCall).file.testOutput

\* one of the git commands of the repository fails when it is run
GitStepFails(repo) ==
    \/ repo.status = "fails"
    \/ repo.status # "clean" /\ repo.addFails
    \/ repo.status = "docChanges" /\ repo.commitFails

(***************************************************************************)
(* C37: no failure of the git status/add/commit step fails a stage:        *)
(* checkAndCommitChanges never throws and answers committed: false when a  *)
(* git command fails, and a stage whose evidence validated goes on to      *)
(* return its result and is recorded with status complete.                 *)
(***************************************************************************)
C37_Step ==
    /\ stagePc = "commit"
          => /\ stagePc' = "returned"
             /\ ~ValueOf(gitResult').answer.threw
             /\ GitStepFails(ValueOf(gitResult').repo)
                   => ~ValueOf(gitResult').answer.committed
    /\ (stagePc = "returned" /\ stagePc' # "returned")
          => StatusIn(stageOutputs', cur) = "complete"

C37_GitFailureNeverFailsStage == [][C37_Step]_vars

\* outside a git repository: the evidence of B validated at its second
\* attempt, the git step failed, and the attempt returned its result
C37_Witness ==
    /\ stagePc = "returned" /\ cur = "B" /\ attempt = 2
    /\ evidenceValid = Some(TRUE)
    /\ IsDefined(gitResult)
    /\ ValueOf(gitResult).repo.status = "fails"
    /\ ~ValueOf(gitResult).answer.committed
    /\ StatusIn(stageOutputs, "A") = "complete"

\* the call created or resumed a state record whose file the model follows
RecordOfCall ==
    /\ IsDefined(workflowState) /\ ValueOf(workflowState).ownFile
    /\ IsDefined(disk)

(***************************************************************************)
(* C38: when executeWorkflow has returned or thrown, the workflow-state    *)
(* record it created or resumed is no longer running: its status is        *)
(* completed when the result is a success and failed otherwise.            *)
(***************************************************************************)
C38_RecordLeavesRunning ==
    (Returned /\ RecordOfCall)
        => ValueOf(disk).status = IF pc = "done" /\ success = Some(TRUE)
                                  THEN "completed" ELSE "failed"

\* executeWorkflow threw because pre-workflow cleanup reported errors
CleanupThrew ==
    /\ pc = "threw"
    /\ thrown \in {"Pre-workflow cleanup failed: Working directory is not writable",
                   "Pre-workflow cleanup failed: Disk space check failed",
                   "Pre-workflow cleanup failed: Working directory is not writable, Disk space check failed"}

\* the write test of the cleanup found the working directory writable: the
\* message does not list the disk check among the errors
DirectoryWritable ==
    thrown = "Pre-workflow cleanup failed: Working directory is not writable"

(***************************************************************************)
(* C39: for a valid workflow whose working directory exists and is         *)
(* writable, resource validation reports no error: executeWorkflow never   *)
(* throws 'Pre-workflow cleanup failed' on a writable directory, and goes  *)
(* on to the stage loop.                                                   *)
(***************************************************************************)
C39_WritableDirectoryProceeds == CleanupThrew => ~DirectoryWritable

\* a state object was saved and then loaded by its id
SavedAndLoaded == IsDefined(saveCall) /\ IsDefined(ValueOf(saveCall).loaded)

(***************************************************************************)
(* C40: saving a workflow state and then loading it by id yields a state   *)
(* equal, field by field, to the in-memory state as it stands after the    *)
(* save, lastUpdated, iteration and maxIterations included.                *)
(***************************************************************************)
C40_SaveLoadRoundTrip ==
    SavedAndLoaded => ValueOf(ValueOf(saveCall).loaded) = ValueOf(saveCall).state

====
